---- MODULE Spec2Model ----
(***************************************************************************)
(* A model of the recommendation/scoring engine of projet_devops_riot:     *)
(*   api/api/lolalytics_scraper.py  (provider client, cache, scorers)      *)
(*   api/api/matchup_calculator.py  (dataset-backed scorers)               *)
(*   api/api/recommender.py         (calculate_tier, get_recommendations)  *)
(*                                                                         *)
(* Representation.                                                         *)
(*  - A Python str is a sequence of one-character strings, so that         *)
(*    lower(), replace() and startswith() are computed, not assumed.       *)
(*  - None is the value NoneStr / NoneList, which no str or list equals.   *)
(*  - A percentage (winrate, pickrate) is an integer number of             *)
(*    thousandths of a percent: 52.0% is 52000.                            *)
(*  - A 0..100 score is an integer number of thousandths of a point.       *)
(*  - A 0..1 score or weighted score is a fixed-point integer with         *)
(*    SCORE_ONE standing for 1.0; divisions truncate below that            *)
(*    resolution.                                                          *)
(*  - Time is in hours.                                                    *)
(***************************************************************************)
EXTENDS Integers, Sequences, FiniteSets, TLC

VARIABLES
    now,                  \* the wall clock read by datetime.now()
    champion_id_to_name,  \* scraper.champion_id_to_name
    cache,                \* scraper.cache: cache_key -> record
    cache_time,           \* scraper.cache_time (NoTime for None)
    cache_file,           \* content of CACHE_FILE (NoFile when absent)
    stored_at,            \* history: cache_key -> time its entry was stored
    matchup_cache,        \* matchup_calculator._matchup_cache as loaded
    matchup_file,         \* content of matchup_calculator.CACHE_FILE
    dataset,              \* content of matchup_calculator.DATA_PATH
    users_file,           \* content of USERS_FILE: riot_id -> record
    masteries_file,       \* content of MASTERIES_FILE: riot_id -> record
    players_added,        \* history: riot_ids /players/add answered 200 for
    ret,                  \* the last call: operation, arguments, outcome
    threads               \* lookups in progress on threads: position, locals

vars == <<now, champion_id_to_name, cache, cache_time, cache_file,
          stored_at, matchup_cache, matchup_file, dataset, users_file,
          masteries_file, players_added, ret, threads>>

(***************************************************************************)
(* Bounds of the model                                                     *)
(***************************************************************************)
MaxTime == 6
TierMargin == 3
MaxMasteries == 2
MaxEnemies == 2
MaxWon == 5
MaxLost == 1
\* the most matchups of each kind in the "vs" dict of a blind-pick subject
MaxHard == 8
MaxSoft == 2
MaxFavorable == 50

Min(a, b) == IF a <= b THEN a ELSE b
Max(a, b) == IF a >= b THEN a ELSE b
Clip(x, lo, hi) == Max(lo, Min(hi, x))

\* A local variable assigned once: e is evaluated, then Body on its value
Bind(e, Body(_)) == CHOOSE r \in {Body(v) : v \in {e}} : TRUE

(***************************************************************************)
(* Strings                                                                 *)
(***************************************************************************)
UPPER_CHARS == <<"A","B","C","D","E","F","G","H","I","J","K","L","M",
                 "N","O","P","Q","R","S","T","U","V","W","X","Y","Z">>
LOWER_CHARS == <<"a","b","c","d","e","f","g","h","i","j","k","l","m",
                 "n","o","p","q","r","s","t","u","v","w","x","y","z">>

\* the lower-case letter of each upper-case letter
TO_LOWER ==
    [c \in {UPPER_CHARS[i] : i \in 1..26} |->
        LOWER_CHARS[CHOOSE i \in 1..26 : UPPER_CHARS[i] = c]]

LowerChar(c) == IF c \in DOMAIN TO_LOWER THEN TO_LOWER[c] ELSE c

\* str.lower()
Lower(s) == Bind(s, LAMBDA v : [i \in 1..Len(v) |-> LowerChar(v[i])])

\* str.replace(ch, "")
Remove(s, ch) == SelectSeq(s, LAMBDA c : c # ch)

\* str.startswith(p)
StartsWith(s, p) == Len(s) >= Len(p) /\ SubSeq(s, 1, Len(p)) = p

NoneStr == <<"<None>">>
NoneList == << <<"<None>">> >>
\* Python truthiness of an Optional[str] / Optional[list]
TruthyStr(s) == s # NoneStr /\ s # <<>>
TruthyList(l) == l # NoneList /\ l # <<>>

S_us == <<"_">>
S_top == <<"t","o","p">>
S_jng == <<"j","n","g">>
S_jungle == <<"j","u","n","g","l","e">>
S_mid == <<"m","i","d">>
S_middle == <<"m","i","d","d","l","e">>
S_bot == <<"b","o","t">>
S_adc == <<"a","d","c">>
S_bottom == <<"b","o","t","t","o","m">>
S_sup == <<"s","u","p">>
S_support == <<"s","u","p","p","o","r","t">>
S_utility == <<"u","t","i","l","i","t","y">>

S_Ashe == <<"A","s","h","e">>
S_Thresh == <<"T","h","r","e","s","h">>
S_Jinx == <<"J","i","n","x">>
S_Champion_ == <<"C","h","a","m","p","i","o","n","_">>
DIGITS == <<"0","1","2","3","4","5","6","7","8","9">>

\* dict.get(k, default) on a dict given as a sequence of <<key, value>> pairs
DictGet(pairs, k, default) ==
    Bind(k, LAMBDA key :
        IF \E i \in 1..Len(pairs) : pairs[i][1] = key
        THEN pairs[CHOOSE i \in 1..Len(pairs) : pairs[i][1] = key][2]
        ELSE default)

(***************************************************************************)
(* lolalytics_scraper.py                                                   *)
(***************************************************************************)
CACHE_DURATION == 6
MIN_MATCHUP_GAMES == 100
MAX_MATCHUPS == 15

ROLE_MAP ==
    << <<S_top, S_top>>, <<S_jng, S_jungle>>, <<S_jungle, S_jungle>>,
       <<S_mid, S_middle>>, <<S_middle, S_middle>>, <<S_bot, S_bottom>>,
       <<S_adc, S_bottom>>, <<S_bottom, S_bottom>>, <<S_sup, S_support>>,
       <<S_support, S_support>> >>

\* lola_role = ROLE_MAP.get(role.lower(), role.lower())
LolaRole(role) == Bind(Lower(role), LAMBDA r : DictGet(ROLE_MAP, r, r))

\* cache_key = f"{champion.lower()}_{lola_role}"
CacheKey(champion, role) == Lower(champion) \o S_us \o LolaRole(role)

\* champ_name = champion.replace(" ", "").replace("'", "").lower(); the
\* request sent to the provider is identified by its "c" and "lane" params
Request(champion, role) ==
    <<Lower(Remove(Remove(champion, " "), "'")), LolaRole(role)>>

NoTime == -1
NoFile == [timestamp |-> NoTime, matchups |-> <<>>]

\* no request is sent
NoResp == [kind |-> "none"]

\* _get_empty_data()
EmptyData ==
    [counters |-> <<>>, weak_against |-> <<>>, winrate |-> 50000,
     pickrate |-> 0, banrate |-> 0, games |-> 0]

\* self.champion_id_to_name.get(cid, f"Champion_{cid}")
ChampionName(id_to_name, cid) ==
    IF cid \in DOMAIN id_to_name THEN id_to_name[cid]
    ELSE S_Champion_ \o <<DIGITS[cid + 1]>>

\* round(vs_wr, 2): thousandths of a percent to the nearest hundredth
Round2(x) == ((x + 5) \div 10) * 10

\* list.sort(key=winrate) / list.sort(key=winrate, reverse=True); both stable
RECURSIVE InsertByWinrate(_, _, _)
InsertByWinrate(sorted, m, descending) ==
    IF sorted = <<>> THEN <<m>>
    ELSE LET last == sorted[Len(sorted)]
             keep == IF descending THEN last.winrate >= m.winrate
                                   ELSE last.winrate <= m.winrate
         IN  IF keep THEN Append(sorted, m)
             ELSE Append(InsertByWinrate(SubSeq(sorted, 1, Len(sorted) - 1),
                                         m, descending), last)

RECURSIVE SortByWinrate(_, _)
SortByWinrate(l, descending) ==
    IF l = <<>> THEN <<>>
    ELSE InsertByWinrate(SortByWinrate(SubSeq(l, 1, Len(l) - 1), descending),
                         l[Len(l)], descending)

\* l[:n] for n >= 0
Take(l, n) == SubSeq(l, 1, Min(n, Len(l)))

\* The stats block of _parse_counter_data (lines 175-181).  A payload's
\* stats carry bad_field, the first field float() rejects ("" when none).
ParseStats(result, stats) ==
    IF stats.present = FALSE THEN [res |-> result, raised |-> FALSE]
    ELSE IF stats.bad_field = "wr" THEN [res |-> result, raised |-> TRUE]
    ELSE IF stats.bad_field = "pr"
         THEN [res |-> [result EXCEPT !.winrate = stats.wr], raised |-> TRUE]
    ELSE [res |-> [result EXCEPT !.winrate = stats.wr,
                                 !.pickrate = stats.pr,
                                 !.banrate = stats.br,
                                 !.games = stats.analysed],
          raised |-> FALSE]

\* The matchup loop of _parse_counter_data (lines 189-214).  An entry of
\* shape "not_dict" is skipped; one of shape "null_n" makes games < 100
\* raise, which ends the loop.
RECURSIVE ParseMatchups(_, _, _, _)
ParseMatchups(result, entries, i, id_to_name) ==
    IF i > Len(entries) THEN [res |-> result, raised |-> FALSE]
    ELSE LET e == entries[i] IN
         IF e.shape = "not_dict"
         THEN ParseMatchups(result, entries, i + 1, id_to_name)
         ELSE IF e.shape = "null_n" THEN [res |-> result, raised |-> TRUE]
         ELSE IF e.n < MIN_MATCHUP_GAMES
         THEN ParseMatchups(result, entries, i + 1, id_to_name)
         ELSE LET matchup_data ==
                      [champion |-> ChampionName(id_to_name, e.cid),
                       winrate |-> Round2(e.vsWr), games |-> e.n]
                  next ==
                      IF e.vsWr >= 52000
                      THEN [result EXCEPT !.weak_against = Append(@, matchup_data)]
                      ELSE IF e.vsWr <= 48000
                      THEN [result EXCEPT !.counters = Append(@, matchup_data)]
                      ELSE result
              IN  ParseMatchups(next, entries, i + 1, id_to_name)

\* _parse_counter_data(data, champion): whatever was filled in before an
\* exception is returned as it stands (the except clause only prints).
ParseCounterData(data, id_to_name) ==
    IF ~data.is_dict THEN EmptyData
    ELSE Bind(ParseStats(EmptyData, data.stats), LAMBDA s :
         IF s.raised THEN s.res
         ELSE Bind(ParseMatchups(s.res, data.counters, 1, id_to_name), LAMBDA m :
              IF m.raised THEN m.res
              ELSE [m.res EXCEPT
                      !.counters = Take(SortByWinrate(@, FALSE), MAX_MATCHUPS),
                      !.weak_against = Take(SortByWinrate(@, TRUE), MAX_MATCHUPS)]))

\* _is_cache_valid(cache_key)
IsCacheValid(sc, cache_key, t) ==
    /\ cache_key \in DOMAIN sc.cache
    /\ sc.cache_time # NoTime
    /\ t - sc.cache_time < CACHE_DURATION

\* The scraper's state as one value, threaded through the calls of a handler.
\* lookups lists the cache keys fetch_champion_data was called for during
\* the handler, contacts the requests it sent to the provider.
Scraper ==
    [cache |-> cache, cache_time |-> cache_time, cache_file |-> cache_file,
     stored_at |-> stored_at, lookups |-> <<>>, contacts |-> <<>>]

\* lines 150-153: store the parsed result and save the cache file
StoreInCache(sc, cache_key, result, req, t) ==
    LET c2 == (cache_key :> result) @@ sc.cache IN
    [cache |-> c2, cache_time |-> t,
     cache_file |-> [timestamp |-> t, matchups |-> c2],
     stored_at |-> (cache_key :> t) @@ sc.stored_at,
     lookups |-> sc.lookups,
     contacts |-> Append(sc.contacts, req)]

\* fetch_champion_data(champion, role) at time t, the provider answering
\* resp to a request.  Yields the returned dict, the scraper afterwards,
\* whether the cache served it and whether an exception left the method.
FetchChampionData(sc0, champion, role, resp, t, id_to_name) ==
    Bind(CacheKey(champion, role), LAMBDA cache_key :
    Bind([sc0 EXCEPT !.lookups = Append(@, cache_key)], LAMBDA sc :
    LET req == Request(champion, role)
        contacted == [sc EXCEPT !.contacts = Append(@, req)]
    IN  IF IsCacheValid(sc, cache_key, t)
        THEN [data |-> sc.cache[cache_key], sc |-> sc, hit |-> TRUE,
              raised |-> FALSE]
        ELSE IF resp.kind \in {"timeout", "http_error", "bad_json"}
        THEN [data |-> EmptyData, sc |-> contacted, hit |-> FALSE,
              raised |-> FALSE]
        ELSE Bind(ParseCounterData(resp.body, id_to_name), LAMBDA result :
             [data |-> result,
              sc |-> StoreInCache(sc, cache_key, result, req, t),
              hit |-> FALSE, raised |-> FALSE])))


\* {m["champion"].lower(): m["winrate"] for m in l}: a later entry of the
\* same lowered name replaces an earlier one
MatchupDictHas(l, name) == \E i \in 1..Len(l) : Lower(l[i].champion) = name
MatchupDictGet(l, name) ==
    l[CHOOSE i \in 1..Len(l) :
        /\ Lower(l[i].champion) = name
        /\ \A j \in (i + 1)..Len(l) : Lower(l[j].champion) # name].winrate

\* a faulty variant: a winrate found in weak_against is taken for the
\* enemy's winrate and inverted
RECURSIVE LolaTotalScore_WeakInverted(_, _, _)
LolaTotalScore_WeakInverted(data, enemy_champions, i) ==
    IF i > Len(enemy_champions) THEN 0
    ELSE Bind(Lower(enemy_champions[i]), LAMBDA enemy_lower :
             IF MatchupDictHas(data.counters, enemy_lower)
             THEN MatchupDictGet(data.counters, enemy_lower)
             ELSE IF MatchupDictHas(data.weak_against, enemy_lower)
             THEN 100000 - MatchupDictGet(data.weak_against, enemy_lower)
             ELSE 50000)
         + LolaTotalScore_WeakInverted(data, enemy_champions, i + 1)

\* lines 258-272: the sum of the per-enemy winrates
RECURSIVE LolaTotalScore(_, _, _)
LolaTotalScore(data, enemy_champions, i) ==
    IF i > Len(enemy_champions) THEN 0
    ELSE Bind(Lower(enemy_champions[i]), LAMBDA enemy_lower :
             IF MatchupDictHas(data.counters, enemy_lower)
             THEN MatchupDictGet(data.counters, enemy_lower)
             ELSE IF MatchupDictHas(data.weak_against, enemy_lower)
             THEN MatchupDictGet(data.weak_against, enemy_lower)
             ELSE 50000)
         + LolaTotalScore(data, enemy_champions, i + 1)

\* a faulty variant: the rescaled average is not clipped
RescaleAverage_Unclipped(total, matched) ==
    (total * 10) \div matched - 450000

\* avg_winrate = total / matched; score = (avg_winrate - 45) * 10;
\* max(0, min(100, score))            (thousandths of a point)
RescaleAverage(total, matched) ==
    Clip((total * 10) \div matched - 450000, 0, 100000)

\* LolalyticsScraper.get_counter_score, given the fetched data
LolaCounterScoreOf(data, enemy_champions) ==
    IF data.games = 0 THEN 50000
    ELSE RescaleAverage(LolaTotalScore(data, enemy_champions, 1),
                        Len(enemy_champions))

\* LolalyticsScraper.get_counter_score(champion, role, enemy_champions)
LolaGetCounterScore(sc, champion, role, enemy_champions, resp, t, id_to_name) ==
    IF ~TruthyList(enemy_champions)
    THEN [score |-> 50000, sc |-> sc]
    ELSE Bind(FetchChampionData(sc, champion, role, resp, t, id_to_name),
              LAMBDA f : [score |-> LolaCounterScoreOf(f.data, enemy_champions),
                          sc |-> f.sc])

CountWhere(l, P(_)) == Len(SelectSeq(l, P))

\* a faulty variant: no special case for an empty weak_against list
LolaBlindpickScoreOf_NoEmptyCase(data) ==
    IF data.games = 0 THEN 50000
    ELSE Clip(70000 + Max(0, (data.winrate - 50000) * 2), 0, 100000)

\* LolalyticsScraper.get_blindpick_score, given the fetched data
LolaBlindpickScoreOf(data) ==
    IF data.games = 0 THEN 50000
    ELSE IF data.weak_against = <<>> THEN 75000
    ELSE LET hard_counters ==
                 CountWhere(data.weak_against, LAMBDA m : m.winrate < 45000)
             soft_counters ==
                 CountWhere(data.weak_against,
                            LAMBDA m : 45000 <= m.winrate /\ m.winrate < 48000)
             penalty == hard_counters * 12 + soft_counters * 4
             bonus == Max(0, (data.winrate - 50000) * 2)
         IN  Clip(70000 - penalty * 1000 + bonus, 0, 100000)

\* LolalyticsScraper.get_blindpick_score(champion, role)
LolaGetBlindpickScore(sc, champion, role, resp, t, id_to_name) ==
    Bind(FetchChampionData(sc, champion, role, resp, t, id_to_name),
         LAMBDA f : [score |-> LolaBlindpickScoreOf(f.data), sc |-> f.sc])

(***************************************************************************)
(* matchup_calculator.py                                                   *)
(* A dict is a sequence of <<key, value>> pairs in insertion order, the    *)
(* order in which Python iterates it.  The table maps "Name_role" to the   *)
(* dict of its "vs" records.                                               *)
(***************************************************************************)
NoTable == << <<NoneStr, <<>> >> >>

role_map ==
    << <<S_top, S_top>>, <<S_jng, S_jng>>, <<S_jungle, S_jng>>,
       <<S_mid, S_mid>>, <<S_middle, S_mid>>, <<S_bot, S_bot>>,
       <<S_adc, S_bot>>, <<S_bottom, S_bot>>, <<S_sup, S_sup>>,
       <<S_support, S_sup>>, <<S_utility, S_sup>> >>

\* normalized_role = role_map.get(role.lower(), role.lower())
DsNormalizedRole(role) == Bind(Lower(role), LAMBDA r : DictGet(role_map, r, r))

DictHas(pairs, k) == \E i \in 1..Len(pairs) : pairs[i][1] = k

\* for k in d.keys(): if k.startswith(prefix): ... break
HasPrefixKey(pairs, prefix) ==
    \E i \in 1..Len(pairs) : StartsWith(pairs[i][1], prefix)
FirstPrefixIndex(pairs, prefix) ==
    CHOOSE i \in 1..Len(pairs) :
        /\ StartsWith(pairs[i][1], prefix)
        /\ \A j \in 1..(i - 1) : ~StartsWith(pairs[j][1], prefix)

\* lines 174-185 / 237-247: the subject's "vs" dict; found is FALSE when
\* neither the exact key nor any key starting with "<champion>_" exists
DsChampMatchups(matchups, champion, role) ==
    LET key == champion \o S_us \o DsNormalizedRole(role)
        prefix == champion \o S_us
    IN  IF DictHas(matchups, key)
        THEN [found |-> TRUE, vs |-> DictGet(matchups, key, <<>>)]
        ELSE IF HasPrefixKey(matchups, prefix)
        THEN [found |-> TRUE,
              vs |-> matchups[FirstPrefixIndex(matchups, prefix)][2]]
        ELSE [found |-> FALSE, vs |-> <<>>]

\* lines 190-199: total_winrate and matched over the enemy list
RECURSIVE DsAccumulate(_, _, _)
DsAccumulate(champ_matchups, enemy_champions, i) ==
    IF i > Len(enemy_champions) THEN [total |-> 0, matched |-> 0]
    ELSE LET rest == DsAccumulate(champ_matchups, enemy_champions, i + 1)
             prefix == enemy_champions[i] \o S_us
         IN  IF HasPrefixKey(champ_matchups, prefix)
             THEN LET stats ==
                          champ_matchups[FirstPrefixIndex(champ_matchups, prefix)][2]
                  IN  [total |-> stats.winrate + rest.total,
                       matched |-> 1 + rest.matched]
             ELSE rest

\* a faulty variant: 0.0 instead of the neutral score when the subject has
\* no entry in the table
DsGetCounterScore_ZeroWhenAbsent(matchups, champion, role, enemy_champions) ==
    IF ~TruthyList(enemy_champions) THEN 50000
    ELSE LET p == DsChampMatchups(matchups, champion, role) IN
         IF ~p.found THEN 0
         ELSE IF p.vs = <<>> THEN 50000
         ELSE LET a == DsAccumulate(p.vs, enemy_champions, 1) IN
              IF a.matched = 0 THEN 50000
              ELSE RescaleAverage(a.total, a.matched)

\* matchup_calculator.get_counter_score(champion, role, enemy_champions) on
\* the table load_matchup_data() returned
DsGetCounterScore(matchups, champion, role, enemy_champions) ==
    IF ~TruthyList(enemy_champions) THEN 50000
    ELSE LET p == DsChampMatchups(matchups, champion, role) IN
         IF ~p.found THEN 50000
         ELSE IF p.vs = <<>> THEN 50000
         ELSE LET a == DsAccumulate(p.vs, enemy_champions, 1) IN
              IF a.matched = 0 THEN 50000
              ELSE RescaleAverage(a.total, a.matched)

\* a faulty variant: "if wr < 48" instead of "elif", so that a hard counter
\* is counted as a soft one too
DsGetBlindpickScore_NoElif(matchups, champion, role) ==
    LET p == DsChampMatchups(matchups, champion, role) IN
    IF ~p.found THEN 50000
    ELSE IF p.vs = <<>> THEN 60000
    ELSE LET hard_counters ==
                 CountWhere(p.vs, LAMBDA e : e[2].winrate < 45000)
             soft_counters ==
                 CountWhere(p.vs, LAMBDA e : e[2].winrate < 48000)
             favorable ==
                 CountWhere(p.vs, LAMBDA e : e[2].winrate > 52000)
         IN  Clip(70000 - hard_counters * 10000 - soft_counters * 3000
                  + favorable * 2000, 0, 100000)

\* matchup_calculator.get_blindpick_score(champion, role)
DsGetBlindpickScore(matchups, champion, role) ==
    LET p == DsChampMatchups(matchups, champion, role) IN
    IF ~p.found THEN 50000
    ELSE IF p.vs = <<>> THEN 60000
    ELSE LET hard_counters ==
                 CountWhere(p.vs, LAMBDA e : e[2].winrate < 45000)
             soft_counters ==
                 CountWhere(p.vs, LAMBDA e : e[2].winrate >= 45000
                                             /\ e[2].winrate < 48000)
             favorable ==
                 CountWhere(p.vs, LAMBDA e : e[2].winrate > 52000)
         IN  Clip(70000 - hard_counters * 10000 - soft_counters * 3000
                  + favorable * 2000, 0, 100000)

\* lines 115-126: a pair seen in fewer games is left out of the table
DS_MIN_GAMES == 5

NoPick == NoneStr

\* "." in str(pick)
HasDot(s) == \E i \in 1..Len(s) : s[i] = "."
FirstDot(s) == CHOOSE i \in 1..Len(s) : s[i] = "." /\ \A j \in 1..(i - 1) : s[j] # "."

\* parts = str(pick).split("."): parts[0] and parts[1]
PickName(s) == SubSeq(s, 1, FirstDot(s) - 1)
PickRole(s) ==
    LET rest == SubSeq(s, FirstDot(s) + 1, Len(s)) IN
    IF HasDot(rest) THEN SubSeq(rest, 1, FirstDot(rest) - 1) ELSE rest

\* lines 79-88: get_champions(row), the picks that are not NaN and hold a "."
RECURSIVE get_champions(_, _)
get_champions(picks, i) ==
    IF i > Len(picks) THEN <<>>
    ELSE IF picks[i] # NoPick /\ HasDot(picks[i])
    THEN <<[name |-> PickName(picks[i]), role |-> PickRole(picks[i])]>>
         \o get_champions(picks, i + 1)
    ELSE get_champions(picks, i + 1)

\* f"{champ['name']}_{champ['role']}"
ChampKey(champ) == champ.name \o S_us \o champ.role

\* matchups[key][vs_key]["games"] += 1, and ["wins"] += 1 when won; the
\* defaultdicts create the key, then the vs_key, when they are missing
Bump(matchups, key, vs_key, won) ==
    LET withKey == IF DictHas(matchups, key) THEN matchups
                   ELSE Append(matchups, <<key, <<>> >>)
        k == CHOOSE i \in 1..Len(withKey) : withKey[i][1] = key
        vs == withKey[k][2]
        withVs == IF DictHas(vs, vs_key) THEN vs
                  ELSE Append(vs, <<vs_key, [wins |-> 0, games |-> 0]>>)
        v == CHOOSE i \in 1..Len(withVs) : withVs[i][1] = vs_key
        stats == withVs[v][2]
        bumped == [wins |-> stats.wins + (IF won THEN 1 ELSE 0),
                   games |-> stats.games + 1]
    IN  [withKey EXCEPT ![k] = <<key, [withVs EXCEPT ![v] = <<vs_key, bumped>>]>>]

\* lines 96-103 / 106-113: for own in owns: for other in others: ...
RECURSIVE BumpPairs(_, _, _, _, _, _)
BumpPairs(matchups, owns, others, i, j, won) ==
    IF i > Len(owns) THEN matchups
    ELSE IF j > Len(others) THEN BumpPairs(matchups, owns, others, i + 1, 1, won)
    ELSE Bind(Bump(matchups, ChampKey(owns[i]), ChampKey(others[j]), won),
              LAMBDA m : BumpPairs(m, owns, others, i, j + 1, won))

\* df["gameid"].unique(): the ids in order of first appearance
RECURSIVE UniqueGameIds(_, _)
UniqueGameIds(rows, i) ==
    IF i = 0 THEN <<>>
    ELSE LET before == UniqueGameIds(rows, i - 1) IN
         IF \E k \in 1..Len(before) : before[k] = rows[i].gameid THEN before
         ELSE Append(before, rows[i].gameid)

\* lines 54-62: the rows of 2026 and later, those of 2024 and later when
\* there is none
RowsOfSeason(rows) ==
    LET recent == SelectSeq(rows, LAMBDA r : r.year >= 2026) IN
    IF Len(recent) = 0 THEN SelectSeq(rows, LAMBDA r : r.year >= 2024)
    ELSE recent

\* a faulty variant: the win flag is not inverted for the second team
RECURSIVE CountGames_NoInversion(_, _, _, _)
CountGames_NoInversion(matchups, df, ids, g) ==
    IF g > Len(ids) THEN matchups
    ELSE LET game_rows == SelectSeq(df, LAMBDA r : r.gameid = ids[g]) IN
         IF Len(game_rows) # 2
         THEN CountGames_NoInversion(matchups, df, ids, g + 1)
         ELSE LET team1_champs == get_champions(game_rows[1].picks, 1)
                  team2_champs == get_champions(game_rows[2].picks, 1)
                  team1_won == game_rows[1].result = 1
              IN  Bind(BumpPairs(matchups, team1_champs, team2_champs, 1, 1,
                                 team1_won), LAMBDA m1 :
                  Bind(BumpPairs(m1, team2_champs, team1_champs, 1, 1,
                                 team1_won), LAMBDA m2 :
                       CountGames_NoInversion(m2, df, ids, g + 1)))

\* lines 69-113: the loop over the game ids
RECURSIVE CountGames(_, _, _, _)
CountGames(matchups, df, ids, g) ==
    IF g > Len(ids) THEN matchups
    ELSE LET game_rows == SelectSeq(df, LAMBDA r : r.gameid = ids[g]) IN
         IF Len(game_rows) # 2 THEN CountGames(matchups, df, ids, g + 1)
         ELSE LET team1_champs == get_champions(game_rows[1].picks, 1)
                  team2_champs == get_champions(game_rows[2].picks, 1)
                  team1_won == game_rows[1].result = 1
              IN  Bind(BumpPairs(matchups, team1_champs, team2_champs, 1, 1,
                                 team1_won), LAMBDA m1 :
                  Bind(BumpPairs(m1, team2_champs, team1_champs, 1, 1,
                                 ~team1_won), LAMBDA m2 :
                       CountGames(m2, df, ids, g + 1)))

\* a faulty variant: the percentage is cut to one decimal, not rounded
WinratePercent_Truncated(wins, games) == 100 * ((wins * 1000) \div games)

\* round(wins / games * 100, 1) in thousandths of a percent (half to even)
WinratePercent(wins, games) ==
    LET q == (wins * 1000) \div games
        r == (wins * 1000) % games
    IN  100 * (IF 2 * r > games THEN q + 1
               ELSE IF 2 * r = games THEN q + (q % 2)
               ELSE q)

\* a faulty variant: the floor is one game too low
WinrateTable_FloorFour(matchups) ==
    [c \in 1..Len(matchups) |->
        <<matchups[c][1],
          LET kept == SelectSeq(matchups[c][2],
                                LAMBDA e : e[2].games >= DS_MIN_GAMES - 1)
          IN  [v \in 1..Len(kept) |->
                  <<kept[v][1],
                    [wins |-> kept[v][2].wins, games |-> kept[v][2].games,
                     winrate |-> WinratePercent(kept[v][2].wins,
                                                kept[v][2].games)]>>]>>]

\* lines 115-126: result[champ] = {"vs": {...}} with the records of the
\* pairs counted DS_MIN_GAMES times or more
WinrateTable(matchups) ==
    [c \in 1..Len(matchups) |->
        <<matchups[c][1],
          LET kept == SelectSeq(matchups[c][2],
                                LAMBDA e : e[2].games >= DS_MIN_GAMES)
          IN  [v \in 1..Len(kept) |->
                  <<kept[v][1],
                    [wins |-> kept[v][2].wins, games |-> kept[v][2].games,
                     winrate |-> WinratePercent(kept[v][2].wins,
                                                kept[v][2].games)]>>]>>]

\* lines 51-126: the table computed from the rows of the dataset
BuildMatchups(rows) ==
    Bind(RowsOfSeason(rows), LAMBDA df :
    Bind(CountGames(<<>>, df, UniqueGameIds(df, Len(df)), 1), LAMBDA matchups :
         WinrateTable(matchups)))

(***************************************************************************)
(* recommender.py                                                          *)
(***************************************************************************)
\* a faulty variant: the S threshold is exclusive
calculate_tier_StrictS(winrate, pickrate) ==
    IF winrate > 53000 THEN "S"
    ELSE IF winrate >= 51000 THEN "A"
    ELSE IF winrate >= 49000 THEN "B"
    ELSE IF winrate >= 47000 THEN "C"
    ELSE "D"

\* calculate_tier(winrate, pickrate=5.0)
calculate_tier(winrate, pickrate) ==
    IF winrate >= 53000 THEN "S"
    ELSE IF winrate >= 51000 THEN "A"
    ELSE IF winrate >= 49000 THEN "B"
    ELSE IF winrate >= 47000 THEN "C"
    ELSE "D"


\* 1.0 of a 0..1 score
SCORE_ONE == 6 * 1000000
MAX_CANDIDATES == 30

\* The parameter defaults of get_recommendations, in hundredths
DEFAULT_MASTERY_WEIGHT == 25
DEFAULT_META_WEIGHT == 30
DEFAULT_COUNTER_WEIGHT == 45

\* a faulty variant: the comfort branch is missing
ModeWeights_NoComfort(mode, enemy_champions, mastery_weight, meta_weight, counter_weight) ==
    IF mode = "counter" /\ TruthyList(enemy_champions)
    THEN [mastery |-> 15, meta |-> 20, counter |-> 65]
    ELSE IF mode = "blind"
    THEN [mastery |-> 25, meta |-> 45, counter |-> 30]
    ELSE [mastery |-> mastery_weight, meta |-> meta_weight,
          counter |-> counter_weight]

\* lines 90-102: the weights after the mode adjustment, in hundredths
ModeWeights(mode, enemy_champions, mastery_weight, meta_weight, counter_weight) ==
    IF mode = "counter" /\ TruthyList(enemy_champions)
    THEN [mastery |-> 15, meta |-> 20, counter |-> 65]
    ELSE IF mode = "blind"
    THEN [mastery |-> 25, meta |-> 45, counter |-> 30]
    ELSE IF mode = "comfort"
    THEN [mastery |-> 55, meta |-> 25, counter |-> 20]
    ELSE [mastery |-> mastery_weight, meta |-> meta_weight,
          counter |-> counter_weight]

\* [c.lower() for c in l] as a set; nothing for None or []
LoweredNames(l) ==
    IF TruthyList(l) THEN {Lower(l[i]) : i \in 1..Len(l)} ELSE {}

\* a faulty variant: the ally and banned lists are forgotten
Excluded_EnemiesOnly(enemy_champions, ally_champions, banned_champions) ==
    LoweredNames(enemy_champions)

\* lines 105-111
Excluded(enemy_champions, ally_champions, banned_champions) ==
    LoweredNames(enemy_champions) \cup LoweredNames(ally_champions)
        \cup LoweredNames(banned_champions)

\* lines 114-115: max over all the masteries, at least 1
RECURSIVE MaxPoints(_, _)
MaxPoints(masteries, i) ==
    IF i > Len(masteries) THEN 1
    ELSE Max(masteries[i].champion_points, MaxPoints(masteries, i + 1))

\* lines 149-150
MetaScore(winrate) == Clip((winrate - 45000) * (SCORE_ONE \div 15000), 0, SCORE_ONE)

\* lines 155-158; points / max_points is held in thousandths
MasteryScore(mastery_level, mastery_points, max_points) ==
    IF mastery_level > 0
    THEN Min(mastery_level * (SCORE_ONE \div 10), 7 * (SCORE_ONE \div 10))
         + ((mastery_points * 1000) \div max_points) * (3 * (SCORE_ONE \div 10000))
    ELSE 0

\* a 0..100 score (thousandths of a point) / 100
ScoreValue(score) == score * (SCORE_ONE \div 100000)

\* lines 172-183
WeightedScore(meta_score, mastery_score, counter_value, w) ==
    (meta_score * w.meta + mastery_score * w.mastery + counter_value * w.counter)
        \div 100

\* a faulty variant: the bonus asks for a winrate above 52
MasteryBonus_Above52(final_score, mastery_level, winrate) ==
    IF mastery_level >= 5 /\ winrate > 52000
    THEN (final_score * 110) \div 100 ELSE final_score

\* lines 186-187
MasteryBonus(final_score, mastery_level, winrate) ==
    IF mastery_level >= 5 /\ winrate >= 51000
    THEN (final_score * 110) \div 100 ELSE final_score

\* a faulty variant: the bonus does not ask whether enemies were supplied
CounterBonus_WithoutEnemies(final_score, counter_score_value, enemy_champions) ==
    IF counter_score_value >= 7 * (SCORE_ONE \div 10)
    THEN (final_score * 115) \div 100 ELSE final_score

\* lines 190-191
CounterBonus(final_score, counter_score_value, enemy_champions) ==
    IF counter_score_value >= 7 * (SCORE_ONE \div 10) /\ TruthyList(enemy_champions)
    THEN (final_score * 115) \div 100 ELSE final_score

\* round(final_score, 3), in thousandths
Round3(final_score) == (final_score + SCORE_ONE \div 2000) \div (SCORE_ONE \div 1000)
\* round(winrate, 1), kept in thousandths of a percent
Round1(x) == ((x + 50) \div 100) * 100

NoScore == -1

\* lines 144-232 for one candidate whose stats f were fetched and whose
\* pickrate passed the filter; scored is the blind-pick or counter scorer's
\* answer.  final_score, the weighted score before the bonuses, the
\* unrounded winrate, counter_score_value and pos (the mastery's index) are
\* kept beside the returned fields; the reason text is left out.
Recommendation(mastery, pos, role, w, max_points, enemy_champions, mode, data, scored) ==
    LET mastery_level == mastery.champion_level
        mastery_points == mastery.champion_points
        winrate == data.winrate
        meta_score == MetaScore(winrate)
        mastery_score == MasteryScore(mastery_level, mastery_points, max_points)
        use_blind == mode = "blind" \/ ~TruthyList(enemy_champions)
        blindpick_score_value ==
            IF use_blind THEN ScoreValue(scored) ELSE SCORE_ONE \div 2
        counter_score_value ==
            IF use_blind THEN blindpick_score_value ELSE ScoreValue(scored)
        weighted ==
            IF mode = "blind"
            THEN WeightedScore(meta_score, mastery_score,
                               blindpick_score_value, w)
            ELSE WeightedScore(meta_score, mastery_score,
                               counter_score_value, w)
    IN  Bind(CounterBonus(MasteryBonus(weighted, mastery_level, winrate),
                          counter_score_value, enemy_champions),
             LAMBDA final_score :
                 [champion |-> mastery.champion_name,
                  role |-> role,
                  score |-> Round3(final_score),
                  winrate |-> Round1(winrate),
                  tier |-> calculate_tier(winrate, 5000),
                  mastery_level |-> mastery_level,
                  mastery_points |-> mastery_points,
                  counter_score |-> counter_score_value \div (SCORE_ONE \div 100000),
                  blindpick_score |->
                      IF mode = "blind"
                      THEN blindpick_score_value \div (SCORE_ONE \div 100000)
                      ELSE NoScore,
                  games_in_meta |-> data.games,
                  mode |-> mode,
                  final_score |-> final_score,
                  weighted |-> weighted,
                  stats_winrate |-> winrate,
                  counter_value |-> counter_score_value,
                  pos |-> pos])

\* what the provider answers to a request, if it is sent
Answer(prov, req) == IF req \in DOMAIN prov THEN prov[req] ELSE NoResp

\* lines 130-232 for one mastery that passed the name and exclusion tests.
\* Yields the scraper afterwards and the appended recommendation, if any.
ScoreCandidate(sc, mastery, pos, role, w, max_points, min_pickrate, enemy_champions, mode, prov, t, id_to_name) ==
    LET champion == mastery.champion_name IN
    Bind(Answer(prov, Request(champion, role)), LAMBDA resp :
    Bind(FetchChampionData(sc, champion, role, resp, t, id_to_name),
         LAMBDA f :
        IF f.data.pickrate < min_pickrate THEN [sc |-> f.sc, recs |-> <<>>]
        ELSE Bind(IF mode = "blind" \/ ~TruthyList(enemy_champions)
                  THEN LolaGetBlindpickScore(f.sc, champion, role, resp, t,
                                             id_to_name)
                  ELSE LolaGetCounterScore(f.sc, champion, role,
                                           enemy_champions, resp, t, id_to_name),
                  LAMBDA scored :
                      [sc |-> scored.sc,
                       recs |-> <<Recommendation(mastery, pos, role, w,
                                                 max_points, enemy_champions,
                                                 mode, f.data, scored.score)>>])))

\* a mastery with its position in the list
Candidate(masteries, j) == [mastery |-> masteries[j], pos |-> j]
Eligible(c, excluded) ==
    /\ c.mastery.champion_name # <<>>
    /\ Lower(c.mastery.champion_name) \notin excluded

\* a faulty variant: the list is cut after the exclusions, the first 30
\* masteries that have a name and are not excluded are scored
Candidates_CutAfterExclusion(masteries, excluded) ==
    Take(SelectSeq([j \in 1..Len(masteries) |-> Candidate(masteries, j)],
                   LAMBDA c : Eligible(c, excluded)),
         MAX_CANDIDATES)

\* lines 120-128: the masteries of masteries[:30] the loop does not leave
\* with "continue": those with a name that is not excluded
Candidates(masteries, excluded) ==
    SelectSeq([j \in 1..Min(Len(masteries), MAX_CANDIDATES) |->
                  Candidate(masteries, j)],
              LAMBDA c : Eligible(c, excluded))

\* lines 130-232 for each of the candidates, in order
RECURSIVE ScoreMasteries(_, _, _, _, _, _, _, _, _, _, _)
ScoreMasteries(sc, candidates, i, role, w, max_points, min_pickrate, enemy_champions, mode, prov, env) ==
    IF i > Len(candidates) THEN [sc |-> sc, recs |-> <<>>]
    ELSE Bind(ScoreCandidate(sc, candidates[i].mastery, candidates[i].pos,
                             role, w, max_points, min_pickrate,
                             enemy_champions, mode, prov, env.t,
                             env.id_to_name),
              LAMBDA one :
         Bind(ScoreMasteries(one.sc, candidates, i + 1, role, w, max_points,
                             min_pickrate, enemy_champions, mode, prov, env),
              LAMBDA rest :
                  [sc |-> rest.sc, recs |-> one.recs \o rest.recs]))

\* a faulty variant: an unstable sort, equal scores end in reverse order
RECURSIVE InsertByScore_Unstable(_, _)
InsertByScore_Unstable(sorted, r) ==
    IF sorted = <<>> THEN <<r>>
    ELSE LET last == sorted[Len(sorted)] IN
         IF last.score > r.score THEN Append(sorted, r)
         ELSE Append(InsertByScore_Unstable(SubSeq(sorted, 1, Len(sorted) - 1), r),
                     last)

\* recommendations.sort(key=lambda x: x["score"], reverse=True): stable
RECURSIVE InsertByScore(_, _)
InsertByScore(sorted, r) ==
    IF sorted = <<>> THEN <<r>>
    ELSE LET last == sorted[Len(sorted)] IN
         IF last.score >= r.score THEN Append(sorted, r)
         ELSE Append(InsertByScore(SubSeq(sorted, 1, Len(sorted) - 1), r), last)

RECURSIVE SortByScore(_)
SortByScore(l) ==
    IF l = <<>> THEN <<>>
    ELSE InsertByScore(SortByScore(SubSeq(l, 1, Len(l) - 1)), l[Len(l)])

\* l[:n], n of either sign
SliceTo(l, n) == IF n >= 0 THEN Take(l, n) ELSE Take(l, Max(Len(l) + n, 0))

\* a faulty variant: the role is not tested before the loop
get_recommendations_NoRoleTest(sc, masteries, role, top_n, mastery_weight, meta_weight, counter_weight, min_pickrate, enemy_champions, ally_champions, banned_champions, mode, prov, env) ==
    IF masteries = <<>>
    THEN [result |-> <<>>, sc |-> sc, weights |-> <<>>, survivors |-> <<>>]
    ELSE Bind(ModeWeights(mode, enemy_champions, mastery_weight,
                          meta_weight, counter_weight), LAMBDA w :
         Bind(Excluded(enemy_champions, ally_champions, banned_champions),
              LAMBDA excluded :
         Bind(ScoreMasteries(sc, Candidates(masteries, excluded), 1, role, w,
                             MaxPoints(masteries, 1), min_pickrate,
                             enemy_champions, mode, prov, env),
              LAMBDA loop :
                  [result |-> SliceTo(SortByScore(loop.recs), top_n),
                   sc |-> loop.sc, weights |-> w, survivors |-> loop.recs])))

\* get_recommendations(...) with LOLALYTICS_ENABLED.  Yields the returned
\* list, the scraper afterwards, and for the properties: the weights used
\* and the recommendations before the sort (survivors).
get_recommendations(sc, masteries, role, top_n, mastery_weight, meta_weight, counter_weight, min_pickrate, enemy_champions, ally_champions, banned_champions, mode, prov, env) ==
    IF masteries = <<>> \/ ~TruthyStr(role)
    THEN [result |-> <<>>, sc |-> sc, weights |-> <<>>, survivors |-> <<>>]
    ELSE Bind(ModeWeights(mode, enemy_champions, mastery_weight,
                          meta_weight, counter_weight), LAMBDA w :
         Bind(Excluded(enemy_champions, ally_champions, banned_champions),
              LAMBDA excluded :
         Bind(ScoreMasteries(sc, Candidates(masteries, excluded), 1, role, w,
                             MaxPoints(masteries, 1), min_pickrate,
                             enemy_champions, mode, prov, env),
              LAMBDA loop :
                  [result |-> SliceTo(SortByScore(loop.recs), top_n),
                   sc |-> loop.sc, weights |-> w, survivors |-> loop.recs])))


(***************************************************************************)
(* meta.py and main.py: the endpoints serving a champion's stats.  An      *)
(* answer is a status and, for 200, the JSON body.                         *)
(***************************************************************************)
NoBody == [champion |-> NoneStr, role |-> NoneStr, stats |-> EmptyData]

\* if not stats or stats.get("games", 0) == 0: raise HTTPException(404);
\* return {"champion": champion, "role": role, "stats": stats}.  The dict
\* of fetch_champion_data always has its keys, so it is never falsy.
StatsOrNotFound(champion, role, stats) ==
    IF stats.games = 0
    THEN [raised |-> "HTTPException", status |-> 404, body |-> NoBody]
    ELSE [raised |-> "", status |-> 200,
          body |-> [champion |-> champion, role |-> role, stats |-> stats]]

\* meta_champion_stats of meta.py (lines 36-49) and of main.py (1000-1013):
\* FastAPI answers a raised HTTPException with its status
meta_champion_stats(champion, role, stats) ==
    LET r == StatsOrNotFound(champion, role, stats) IN
    [status |-> r.status, body |-> r.body]

\* lolalytics_champion_stats of meta.py (lines 52-79): "except
\* HTTPException: raise" comes before "except Exception"
lolalytics_champion_stats(champion, role, stats) ==
    LET r == StatsOrNotFound(champion, role, stats) IN
    [status |-> r.status, body |-> r.body]

\* lolalytics_champion_stats of main.py (lines 1023-1045): the only handler
\* is "except Exception as e: raise HTTPException(status_code=500, ...)",
\* and HTTPException is an Exception
main_lolalytics_champion_stats(champion, role, stats) ==
    LET r == StatsOrNotFound(champion, role, stats) IN
    IF r.raised # "" THEN [status |-> 500, body |-> NoBody]
    ELSE [status |-> r.status, body |-> r.body]

(***************************************************************************)
(* main.py and players.py: accounts and tracked players.  USERS_FILE and   *)
(* MASTERIES_FILE hold a JSON object, here a function from riot_id to      *)
(* record.  The Riot API is an input of each call: riot.found tells        *)
(* whether the account lookup yields a puuid, riot.ok whether the mastery  *)
(* request answers 200, riot.raw is the mastery list of that answer.       *)
(* it serves.                                                              *)
(***************************************************************************)
RIOT_REGION == "euw1"

\* "#" in s, and s.rsplit("#", 1) for such an s
HasHash(s) == \E i \in 1..Len(s) : s[i] = "#"
LastHash(s) == CHOOSE i \in 1..Len(s) : s[i] = "#" /\ \A j \in (i + 1)..Len(s) : s[j] # "#"
RSplitHash(s) ==
    [game_name |-> SubSeq(s, 1, LastHash(s) - 1),
     tag_line |-> SubSeq(s, LastHash(s) + 1, Len(s))]

\* hashlib.sha256(password.encode()).hexdigest(): the digest of a password,
\* distinct passwords having distinct digests
hash_password(password) == <<"sha256:">> \o password

\* the puuid of an account, and None
Puuid(game_name, tag_line) == [game_name |-> game_name, tag_line |-> tag_line]
NoPuuid == [game_name |-> NoneStr, tag_line |-> NoneStr]

\* get_puuid_from_riot_id(game_name, tag_line): None without API key, on an
\* error and on any status but 200
get_puuid_from_riot_id(game_name, tag_line, riot) ==
    IF riot.found THEN Puuid(game_name, tag_line) ELSE NoPuuid

\* fetch_masteries_from_riot(puuid): the list the Riot API answers, [] without
\* API key, on an exception and on any status but 200
fetch_masteries_from_riot(riot) ==
    IF riot.ok THEN riot.raw ELSE <<>>

\* str(n)
RECURSIVE Decimal(_)
Decimal(n) ==
    IF n < 10 THEN <<DIGITS[n + 1]>>
    ELSE Decimal(n \div 10) \o <<DIGITS[(n % 10) + 1]>>

\* the entries of CHAMPION_NAMES the model uses
CHAMPION_NAMES == (22 :> S_Ashe) @@ (222 :> S_Jinx) @@ (412 :> S_Thresh)

\* lines 421-432 of update_user_masteries, 940-951 of add_player, and
\* transform_masteries of utils.py
TransformMasteries(raw_masteries) ==
    [i \in 1..Len(raw_masteries) |->
        LET m == raw_masteries[i] IN
        [champion_id |-> m.championId,
         champion_name |->
             IF m.championId \in DOMAIN CHAMPION_NAMES
             THEN CHAMPION_NAMES[m.championId]
             ELSE S_Champion_ \o Decimal(m.championId),
         champion_level |-> m.championLevel,
         champion_points |-> m.championPoints,
         last_play_time |-> m.lastPlayTime]]

\* masteries_data[riot_id] = {"puuid": ..., "masteries": ..., "updated_at": ...}
WithMasteries(masteries_data, riot_id, puuid, raw_masteries, t) ==
    (riot_id :> [puuid |-> puuid,
                 masteries |-> TransformMasteries(raw_masteries),
                 updated_at |-> t]) @@ masteries_data

\* update_user_masteries(riot_id, puuid): the file is read, the entry
\* replaced, the file saved
update_user_masteries(masteries_data, riot_id, puuid, riot, t) ==
    WithMasteries(masteries_data, riot_id, puuid,
                  fetch_masteries_from_riot(riot), t)

NoUser == [riot_id |-> NoneStr, puuid |-> NoPuuid, region |-> ""]

\* a faulty variant: an existing account is not rejected, its record is
\* written again
register_Overwrites(users, masteries_data, riot_id, password, riot, t) ==
    IF ~HasHash(riot_id)
    THEN [status |-> 400, body |-> NoUser, users |-> users,
          masteries_data |-> masteries_data]
    ELSE LET parts == RSplitHash(riot_id)
             puuid == get_puuid_from_riot_id(parts.game_name, parts.tag_line, riot)
         IN  [status |-> 200,
              body |-> [riot_id |-> riot_id, puuid |-> puuid,
                        region |-> RIOT_REGION],
              users |-> (riot_id :> [password_hash |-> hash_password(password),
                                     puuid |-> puuid, region |-> RIOT_REGION,
                                     created_at |-> t]) @@ users,
              masteries_data |->
                  IF puuid # NoPuuid
                  THEN update_user_masteries(masteries_data, riot_id, puuid,
                                             riot, t)
                  ELSE masteries_data]

\* POST /auth/register (main.py, lines 356-387).  Yields the answer and the
\* two files afterwards.
register(users, masteries_data, riot_id, password, riot, t) ==
    IF riot_id \in DOMAIN users
    THEN [status |-> 400, body |-> NoUser, users |-> users,
          masteries_data |-> masteries_data]
    ELSE IF ~HasHash(riot_id)
    THEN [status |-> 400, body |-> NoUser, users |-> users,
          masteries_data |-> masteries_data]
    ELSE LET parts == RSplitHash(riot_id)
             puuid == get_puuid_from_riot_id(parts.game_name, parts.tag_line, riot)
         IN  [status |-> 200,
              body |-> [riot_id |-> riot_id, puuid |-> puuid,
                        region |-> RIOT_REGION],
              users |-> (riot_id :> [password_hash |-> hash_password(password),
                                     puuid |-> puuid, region |-> RIOT_REGION,
                                     created_at |-> t]) @@ users,
              masteries_data |->
                  IF puuid # NoPuuid
                  THEN update_user_masteries(masteries_data, riot_id, puuid,
                                             riot, t)
                  ELSE masteries_data]

\* a faulty variant: the password is not compared
login_AnyPassword(users, masteries_data, riot_id, password, riot, t) ==
    IF riot_id \notin DOMAIN users
    THEN [status |-> 401, body |-> NoUser, users |-> users,
          masteries_data |-> masteries_data]
    ELSE LET stored_user == users[riot_id] IN
         [status |-> 200,
          body |-> [riot_id |-> riot_id, puuid |-> stored_user.puuid,
                    region |-> stored_user.region],
          users |-> users,
          masteries_data |->
              IF stored_user.puuid # NoPuuid
              THEN update_user_masteries(masteries_data, riot_id,
                                         stored_user.puuid, riot, t)
              ELSE masteries_data]

\* POST /auth/login (main.py, lines 390-410)
login(users, masteries_data, riot_id, password, riot, t) ==
    IF riot_id \notin DOMAIN users
    THEN [status |-> 401, body |-> NoUser, users |-> users,
          masteries_data |-> masteries_data]
    ELSE LET stored_user == users[riot_id] IN
         IF stored_user.password_hash # hash_password(password)
         THEN [status |-> 401, body |-> NoUser, users |-> users,
               masteries_data |-> masteries_data]
         ELSE [status |-> 200,
               body |-> [riot_id |-> riot_id, puuid |-> stored_user.puuid,
                         region |-> stored_user.region],
               users |-> users,
               masteries_data |->
                   IF stored_user.puuid # NoPuuid
                   THEN update_user_masteries(masteries_data, riot_id,
                                              stored_user.puuid, riot, t)
                   ELSE masteries_data]

\* POST /masteries/{riot_id}/refresh (main.py, lines 486-501)
refresh_masteries(users, masteries_data, riot_id, riot, t) ==
    IF riot_id \notin DOMAIN users
    THEN [status |-> 404, masteries_data |-> masteries_data]
    ELSE LET puuid == users[riot_id].puuid IN
         IF puuid = NoPuuid
         THEN [status |-> 400, masteries_data |-> masteries_data]
         ELSE [status |-> 200,
               masteries_data |->
                   update_user_masteries(masteries_data, riot_id, puuid,
                                         riot, t)]

\* riot_id = f"{game_name}#{tag_line}"
RiotId(game_name, tag_line) == game_name \o <<"#">> \o tag_line

\* a faulty variant: a player the Riot lookup does not find is stored too
add_player_KeepsUnfound(masteries_data, game_name, tag_line, riot, t) ==
    LET riot_id == RiotId(game_name, tag_line) IN
    IF riot_id \in DOMAIN masteries_data
    THEN LET puuid == masteries_data[riot_id].puuid IN
         IF puuid # NoPuuid
         THEN [status |-> 200, message |-> "refreshed",
               masteries_data |-> WithMasteries(masteries_data, riot_id, puuid,
                                                fetch_masteries_from_riot(riot), t)]
         ELSE [status |-> 200, message |-> "already registered",
               masteries_data |-> masteries_data]
    ELSE LET puuid == get_puuid_from_riot_id(game_name, tag_line, riot) IN
         [status |-> IF puuid = NoPuuid THEN 404 ELSE 200,
          message |-> IF puuid = NoPuuid THEN "not found" ELSE "added",
          masteries_data |-> WithMasteries(masteries_data, riot_id, puuid,
                                           fetch_masteries_from_riot(riot), t)]

\* POST /players/add/{game_name}/{tag_line}: add_player of players.py
\* (lines 15-57) and of main.py (lines 914-965), which refreshes through
\* update_user_masteries
add_player(masteries_data, game_name, tag_line, riot, t) ==
    LET riot_id == RiotId(game_name, tag_line) IN
    IF riot_id \in DOMAIN masteries_data
    THEN LET puuid == masteries_data[riot_id].puuid IN
         IF puuid # NoPuuid
         THEN [status |-> 200, message |-> "refreshed",
               masteries_data |-> WithMasteries(masteries_data, riot_id, puuid,
                                                fetch_masteries_from_riot(riot), t)]
         ELSE [status |-> 200, message |-> "already registered",
               masteries_data |-> masteries_data]
    ELSE LET puuid == get_puuid_from_riot_id(game_name, tag_line, riot) IN
         IF puuid = NoPuuid
         THEN [status |-> 404, message |-> "not found",
               masteries_data |-> masteries_data]
         ELSE [status |-> 200, message |-> "added",
               masteries_data |-> WithMasteries(masteries_data, riot_id, puuid,
                                                fetch_masteries_from_riot(riot), t)]

\* GET /players: list_players of players.py (lines 60-74) and of main.py
\* (lines 968-983); the players are those of the file, in any order here
list_players(masteries_data) ==
    LET players ==
            {[riot_id |-> r,
              masteries_count |-> Len(masteries_data[r].masteries),
              updated_at |-> masteries_data[r].updated_at] :
                r \in DOMAIN masteries_data}
    IN  [status |-> 200, players |-> players, total |-> Cardinality(players)]

(***************************************************************************)
(* The environment: what the provider answers, what the dataset cache      *)
(* file holds, and the arguments of the calls                              *)
(***************************************************************************)
S_ADC == <<"A","D","C">>
S_thresh == Lower(S_Thresh)
S_ASHE == <<"A","S","H","E">>

\* Data Dragon ids of the champions of the model
FullIdToName == (1 :> S_Ashe) @@ (2 :> S_Thresh) @@ (3 :> S_Jinx)

GoodStats ==
    [present |-> TRUE, bad_field |-> "", wr |-> 52000, pr |-> 5000,
     br |-> 1000, analysed |-> 10000]
LowStats ==
    [present |-> TRUE, bad_field |-> "", wr |-> 49000, pr |-> 300,
     br |-> 0, analysed |-> 800]
NoStats ==
    [present |-> FALSE, bad_field |-> "", wr |-> 0, pr |-> 0, br |-> 0,
     analysed |-> 0]

E_vsThresh == [shape |-> "ok", cid |-> 2, n |-> 500, vsWr |-> 53000]
E_vsJinx == [shape |-> "ok", cid |-> 3, n |-> 200, vsWr |-> 46996]
E_vsAshe == [shape |-> "ok", cid |-> 1, n |-> 300, vsWr |-> 44000]
E_fewGames == [shape |-> "ok", cid |-> 3, n |-> 50, vsWr |-> 60000]
E_nullN == [shape |-> "null_n", cid |-> 3, n |-> 0, vsWr |-> 0]

Body(stats, counters) == [is_dict |-> TRUE, stats |-> stats, counters |-> counters]
Json(body) == [kind |-> "json", body |-> body]

P_matchups == Body(GoodStats, <<E_vsThresh, E_fewGames, E_vsJinx>>)
P_plain == Body(GoodStats, <<>>)
P_low == Body(LowStats, <<E_vsAshe>>)
P_unplayed == Body(NoStats, <<>>)
P_notDict == [is_dict |-> FALSE]
P_badPickrate == Body([GoodStats EXCEPT !.bad_field = "pr"], <<E_vsThresh>>)
P_badEntry == Body(GoodStats, <<E_vsThresh, E_nullN, E_vsJinx>>)

Failures == {[kind |-> "timeout"], [kind |-> "http_error"], [kind |-> "bad_json"]}
Malformed == {Json(P_notDict), Json(P_badPickrate), Json(P_badEntry)}
WellFormed == {Json(P_matchups), Json(P_plain), Json(P_low), Json(P_unplayed)}
Responses == Failures \cup Malformed \cup WellFormed

LolaChampions == {S_Ashe, S_Thresh}
LolaRoles == {S_bot, S_ADC}
\* the provider-backed scorer lowers the enemy names, the dataset-backed
\* one does not
LolaEnemyNames == {S_thresh, S_Jinx}
DsEnemyNames == {S_Thresh, S_Jinx}
ScorerResponses ==
    {[kind |-> "timeout"], Json(P_matchups), Json(P_plain), Json(P_unplayed),
     Json(P_badEntry)}

\* the lists of at most n elements of S
RECURSIVE ListsUpTo(_, _)
ListsUpTo(S, n) ==
    IF n = 0 THEN {<<>>}
    ELSE LET shorter == ListsUpTo(S, n - 1) IN
         shorter \cup {Append(l, x) : l \in shorter, x \in S}

LolaEnemyLists == ListsUpTo(LolaEnemyNames, MaxEnemies)
DsEnemyLists == ListsUpTo(DsEnemyNames, MaxEnemies)

Rec(wins, games, winrate) == [wins |-> wins, games |-> games, winrate |-> winrate]
K(name, role) == name \o S_us \o role

T_main ==
    << <<K(S_Ashe, S_bot), << <<K(S_Thresh, S_sup), Rec(13, 25, 52000)>>,
                              <<K(S_Jinx, S_bot), Rec(11, 25, 44000)>> >> >>,
       <<K(S_Thresh, S_sup), <<>> >>,
       <<K(S_Jinx, S_mid), << <<K(S_Ashe, S_bot), Rec(14, 25, 56000)>> >> >> >>
\* Ashe was seen as a support, in too few games for a record to survive,
\* and has a record as a bot laner
T_roles ==
    << <<K(S_Ashe, S_sup), <<>> >>,
       <<K(S_Ashe, S_bot), << <<K(S_Thresh, S_sup), Rec(13, 25, 52000)>> >> >> >>
T_partial ==
    << <<K(S_Ashe, S_bot), << <<K(S_Thresh, S_sup), Rec(13, 25, 52000)>> >> >>,
       <<K(S_Jinx, S_bot), << <<K(S_Ashe, S_bot), Rec(10, 20, 50000)>>,
                              <<K(S_Thresh, S_sup), Rec(9, 20, 45000)>> >> >> >>

\* CACHE_FILE: absent, or holding a table
NoDisk == [exists |-> FALSE, table |-> <<>>]
Disks ==
    {NoDisk} \cup
    {[exists |-> TRUE, table |-> T] : T \in {<<>>, T_main, T_partial, T_roles}}

\* DATA_PATH: absent, or holding the rows of the dataset
NoDataset == [exists |-> FALSE, rows |-> <<>>]

DsChampions == {S_Ashe, S_Thresh, S_Jinx}
DsRoles == {S_bot, S_ADC, S_sup}

\* a pick column: "Name.role"
Pick(name, role) == name \o <<".">> \o role
Row(gameid, year, result, picks) ==
    [gameid |-> gameid, year |-> year, result |-> result, picks |-> picks]

\* the two rows of a game: Ashe and Thresh (first row) beat Jinx
WonGame(id, year) ==
    <<Row(id, year, 1, <<Pick(S_Ashe, S_bot), Pick(S_Thresh, S_sup)>>),
      Row(id, year, 0, <<Pick(S_Jinx, S_bot), NoPick>>)>>
\* Jinx (first row) beats Ashe and Thresh
LostGame(id, year) ==
    <<Row(id, year, 1, <<Pick(S_Jinx, S_bot)>>),
      Row(id, year, 0, <<Pick(S_Ashe, S_bot), Pick(S_Thresh, S_sup)>>)>>
\* Ashe (first row) beats Thresh; a pick without "." is not a champion
DuelGame(id, year) ==
    <<Row(id, year, 1, <<Pick(S_Ashe, S_bot), S_Jinx>>),
      Row(id, year, 0, <<Pick(S_Thresh, S_sup)>>)>>

RECURSIVE WonGames(_, _, _)
WonGames(n, first, year) ==
    IF n = 0 THEN <<>> ELSE WonGame(first, year) \o WonGames(n - 1, first + 1, year)
RECURSIVE LostGames(_, _, _)
LostGames(n, first, year) ==
    IF n = 0 THEN <<>> ELSE LostGame(first, year) \o LostGames(n - 1, first + 1, year)
RECURSIVE DuelGames(_, _, _)
DuelGames(n, first, year) ==
    IF n = 0 THEN <<>> ELSE DuelGame(first, year) \o DuelGames(n - 1, first + 1, year)

\* won games of Ashe against Jinx, then lost ones, then games against Thresh
Rows(won, lost, duels, year) ==
    WonGames(won, 1, year) \o LostGames(lost, won + 1, year)
        \o DuelGames(duels, won + lost + 1, year)

\* the datasets of the model: up to MaxWon won and MaxLost lost games of one
\* season, with or without DS_MIN_GAMES games against Thresh; such a season
\* followed by games of an earlier one, by a game of one row or by a game
\* of three; and a dataset older than 2024
Datasets ==
    {Rows(w, l, d, y) : w \in 0..MaxWon, l \in 0..MaxLost,
                        d \in {0, DS_MIN_GAMES}, y \in {2024, 2026}}
    \cup {Rows(4, 0, 0, 2026) \o WonGames(3, 5, 2024),
          Rows(3, 1, DS_MIN_GAMES, 2026) \o <<WonGame(10, 2026)[1]>>,
          Rows(3, 1, DS_MIN_GAMES, 2026) \o WonGame(10, 2026)
              \o <<WonGame(10, 2026)[2]>>,
          Rows(5, 0, 0, 2023)}

\* load_matchup_data(): lines 33-49 (a falsy _matchup_cache, None or {},
\* is loaded again) and 51-138.  Yields the returned table, _matchup_cache
\* and CACHE_FILE afterwards, and whether the table was built from the
\* dataset.
load_matchup_data(mc, file, data) ==
    IF mc # NoTable /\ mc # <<>>
    THEN [table |-> mc, mc |-> mc, file |-> file, built |-> FALSE]
    ELSE IF file.exists
    THEN [table |-> file.table, mc |-> file.table, file |-> file,
          built |-> FALSE]
    ELSE IF ~data.exists
    THEN [table |-> <<>>, mc |-> mc, file |-> file, built |-> FALSE]
    ELSE Bind(BuildMatchups(data.rows), LAMBDA result :
              [table |-> result, mc |-> result,
               file |-> [exists |-> TRUE, table |-> result],
               built |-> TRUE])

(***************************************************************************)
(* Lookups on threads.  The scraper object and _matchup_cache are shared   *)
(* by every lookup of the process and the code takes no lock, so two       *)
(* lookups that run on different threads interleave between the statements *)
(* that read or write the shared state.  A thread holds its position in    *)
(* fetch_champion_data or load_matchup_data and the locals of that call;   *)
(* obs is what its cache check read.                                       *)
(***************************************************************************)
Threads == {"t1", "t2"}

NoObs == [seen |-> FALSE, entry_at |-> NoTime, cache_time |-> NoTime]

IdleThread ==
    [pc |-> "idle", cache_key |-> <<>>, result |-> EmptyData, obs |-> NoObs,
     table |-> NoTable]

\* content of CACHE_FILE between the truncation and the end of write_text:
\* json.loads raises on it
Unparsable == << <<"<partial>">> >>

(***************************************************************************)
(* The state machine                                                       *)
(***************************************************************************)
\* LolalyticsScraper.__init__ of a first start (no cache file yet), with the
\* Data Dragon mapping loaded or not; _matchup_cache = None
Init ==
    /\ now = 0
    /\ champion_id_to_name \in {FullIdToName, <<>>}
    /\ cache = <<>>
    /\ cache_time = NoTime
    /\ cache_file = NoFile
    /\ stored_at = <<>>
    /\ matchup_cache = NoTable
    /\ matchup_file = NoDisk
    /\ dataset = NoDataset
    /\ users_file = <<>>
    /\ masteries_file = <<>>
    /\ players_added = {}
    /\ ret = [op |-> "none"]
    /\ threads = [t \in Threads |-> IdleThread]

SetScraper(sc) ==
    /\ cache' = sc.cache
    /\ cache_time' = sc.cache_time
    /\ cache_file' = sc.cache_file
    /\ stored_at' = sc.stored_at

\* No call is in progress
Idle == ret.op = "none"

\* The caller takes the result of the last call
Return ==
    /\ ~Idle
    /\ ret' = [op |-> "none"]
    /\ UNCHANGED <<now, champion_id_to_name, cache, cache_time, cache_file,
                   stored_at, matchup_cache, matchup_file, dataset, users_file, masteries_file, players_added, threads>>

\* half a CACHE_DURATION passes
Tick ==
    /\ Idle
    /\ now + CACHE_DURATION \div 2 <= MaxTime
    /\ now' = now + CACHE_DURATION \div 2
    /\ UNCHANGED <<champion_id_to_name, cache, cache_time, cache_file,
                   stored_at, matchup_cache, matchup_file, dataset,
                   users_file, masteries_file, players_added, ret, threads>>

\* age of the entry of a key before the call (NoTime when it has none)
AgeOf(cache_key) ==
    IF cache_key \in DOMAIN stored_at THEN now - stored_at[cache_key] ELSE NoTime

\* get_champion_stats(champion, role)
FetchChampionDataCall ==
    /\ Idle
    /\ \E champion \in LolaChampions, role \in LolaRoles, resp \in Responses :
            \E f \in {FetchChampionData(Scraper, champion, role, resp, now,
                                         champion_id_to_name)} :
                /\ SetScraper(f.sc)
                /\ ret' = [op |-> "fetch_champion_data", champion |-> champion,
                           role |-> role,
                           resp |-> IF f.hit THEN NoResp ELSE resp,
                           data |-> f.data, hit |-> f.hit,
                           age |-> AgeOf(CacheKey(champion, role)),
                           raised |-> f.raised]
                /\ UNCHANGED <<now, champion_id_to_name, matchup_cache, matchup_file, dataset, users_file, masteries_file, players_added, threads>>

\* lolalytics_scraper.get_counter_score(champion, role, enemy_champions)
LolaGetCounterScoreCall ==
    /\ Idle
    /\ \E champion \in LolaChampions, role \in LolaRoles,
           enemy_champions \in LolaEnemyLists, resp \in ScorerResponses :
            \E r \in {LolaGetCounterScore(Scraper, champion, role,
                                          enemy_champions, resp, now,
                                          champion_id_to_name)},
               f \in {FetchChampionData(Scraper, champion, role, resp, now,
                                         champion_id_to_name)} :
                /\ SetScraper(r.sc)
                /\ ret' = [op |-> "lola_get_counter_score", champion |-> champion,
                           role |-> role, enemy_champions |-> enemy_champions,
                           data |-> IF enemy_champions = <<>> THEN EmptyData
                                    ELSE f.data,
                           contacts |-> r.sc.contacts,
                           score |-> r.score]
                /\ UNCHANGED <<now, champion_id_to_name, matchup_cache, matchup_file, dataset, users_file, masteries_file, players_added, threads>>

\* lolalytics_scraper.get_blindpick_score(champion, role)
LolaGetBlindpickScoreCall ==
    /\ Idle
    /\ \E champion \in LolaChampions, role \in LolaRoles, resp \in ScorerResponses :
            \E r \in {LolaGetBlindpickScore(Scraper, champion, role, resp, now,
                                            champion_id_to_name)},
               f \in {FetchChampionData(Scraper, champion, role, resp, now,
                                         champion_id_to_name)} :
                /\ SetScraper(r.sc)
                /\ ret' = [op |-> "lola_get_blindpick_score", champion |-> champion,
                           role |-> role, data |-> f.data,
                           contacts |-> r.sc.contacts, score |-> r.score]
                /\ UNCHANGED <<now, champion_id_to_name, matchup_cache, matchup_file, dataset, users_file, masteries_file, players_added, threads>>

\* matchup_calculator.get_counter_score(champion, role, enemy_champions)
DsGetCounterScoreCall ==
    /\ Idle
    /\ \E champion \in DsChampions, role \in DsRoles,
           enemy_champions \in DsEnemyLists :
            \E l \in {IF enemy_champions = <<>>
                      THEN [table |-> matchup_cache, mc |-> matchup_cache,
                            file |-> matchup_file, built |-> FALSE]
                      ELSE load_matchup_data(matchup_cache, matchup_file,
                                             dataset)} :
                /\ matchup_cache' = l.mc
                /\ matchup_file' = l.file
                /\ ret' = [op |-> "ds_get_counter_score", champion |-> champion,
                           role |-> role, enemy_champions |-> enemy_champions,
                           table |-> l.table, built |-> l.built,
                           score |-> DsGetCounterScore(l.table, champion, role,
                                                       enemy_champions)]
                /\ UNCHANGED <<now, champion_id_to_name, cache, cache_time,
                               cache_file, stored_at, dataset, users_file, masteries_file, players_added, threads>>

\* matchup_calculator.get_blindpick_score(champion, role)
DsGetBlindpickScoreCall ==
    /\ Idle
    /\ \E champion \in DsChampions, role \in DsRoles :
            \E l \in {load_matchup_data(matchup_cache, matchup_file, dataset)} :
                /\ matchup_cache' = l.mc
                /\ matchup_file' = l.file
                /\ ret' = [op |-> "ds_get_blindpick_score", champion |-> champion,
                           role |-> role, table |-> l.table, built |-> l.built,
                           score |-> DsGetBlindpickScore(l.table, champion, role)]
                /\ UNCHANGED <<now, champion_id_to_name, cache, cache_time,
                               cache_file, stored_at, dataset, users_file, masteries_file, players_added, threads>>

\* every hundredth of a percent within TierMargin hundredths of a
\* threshold, and the ends of the scale
TierThresholds == {47000, 49000, 51000, 53000}
Winrates ==
    {0, 100000} \cup
    {th + 10 * d : th \in TierThresholds, d \in (0 - TierMargin)..TierMargin}
Pickrates == {0, 500, 5000, 100000}

\* calculate_tier(winrate, pickrate)
CalculateTierCall ==
    \E winrate \in Winrates, pickrate \in Pickrates :
        /\ Idle
        /\ ret' = [op |-> "calculate_tier", winrate |-> winrate,
                   pickrate |-> pickrate,
                   tier |-> calculate_tier(winrate, pickrate)]
        /\ UNCHANGED <<now, champion_id_to_name, cache, cache_time,
                       cache_file, stored_at, matchup_cache, matchup_file, dataset, users_file, masteries_file, players_added, threads>>

Mastery(name, level, points) ==
    [champion_name |-> name, champion_level |-> level, champion_points |-> points]

\* the mastery records of the model; one has no champion_name
MasteryRecords ==
    {Mastery(S_Ashe, 7, 1000), Mastery(S_Thresh, 7, 999),
     Mastery(S_Thresh, 4, 500), Mastery(<<>>, 5, 1000)}
MasteryLists == ListsUpTo(MasteryRecords, MaxMasteries)

Modes == {"balanced", "counter", "blind", "comfort", "aram"}
RecResponses ==
    {[kind |-> "timeout"], Json(P_matchups), Json(P_plain), Json(P_low),
     Json(P_badEntry)}

Args(masteries, role, top_n, min_pickrate, enemy, ally, banned, mode) ==
    [masteries |-> masteries, role |-> role, top_n |-> top_n,
     min_pickrate |-> min_pickrate, enemy_champions |-> enemy,
     ally_champions |-> ally, banned_champions |-> banned, mode |-> mode]

\* one mastery of Ashe, level 7 with 500000 points, for the role "bottom",
\* no enemies, every other argument at its default
BalancedScenario ==
    Args(<<Mastery(S_Ashe, 7, 500000)>>, S_bottom, 5, 500, NoneList, NoneList,
         NoneList, "balanced")

\* The calls of get_recommendations examined: every mastery list with
\* (a) every mode and enemy list, (b) the ally and ban lists, (c) every
\* top_n and min_pickrate of the model; (d) the absent role and the
\* empty mastery list with every mode; and (e) the balanced scenario.
RecCalls ==
    {Args(m, S_bot, 5, 500, e, NoneList, NoneList, mode) :
        m \in MasteryLists, mode \in Modes,
        e \in {NoneList, <<>>, <<S_thresh>>, <<S_Jinx>>}}
    \cup
    {Args(m, S_ADC, 5, 0, e, ab[1], ab[2], mode) :
        m \in MasteryLists, mode \in {"balanced", "counter"},
        e \in {NoneList, <<S_Jinx>>},
        ab \in {<<<<S_ASHE>>, NoneList>>, <<NoneList, <<S_Thresh>>>>,
                <<<<S_Jinx>>, <<S_ASHE>>>>}}
    \cup
    {Args(m, S_bot, n, p, NoneList, NoneList, NoneList, mode) :
        m \in MasteryLists, n \in {0 - 1, 0, 1, 2}, p \in {0, 500},
        mode \in {"balanced", "blind"}}
    \cup
    {Args(m, role, 5, 500, e, NoneList, NoneList, mode) :
        m \in {<<>>, <<Mastery(S_Ashe, 7, 1000)>>},
        role \in {NoneStr, <<>>, S_bot}, mode \in Modes,
        e \in {NoneList, <<S_Jinx>>}}
    \cup {BalancedScenario}

\* the requests a call can send: those of its masteries whose cache entry
\* is not valid when the call starts
RequestsOf(a) ==
    {Request(a.masteries[i].champion_name, a.role) :
        i \in {j \in 1..Len(a.masteries) :
                 /\ a.masteries[j].champion_name # <<>>
                 /\ ~IsCacheValid(Scraper,
                                  CacheKey(a.masteries[j].champion_name, a.role),
                                  now)}}

\* get_recommendations(masteries, role, top_n, min_pickrate=...,
\* enemy_champions=..., ally_champions=..., banned_champions=..., mode=...),
\* as the /recommend endpoint calls it (default weights)
GetRecommendationsCall ==
    /\ Idle
    /\ \E a \in RecCalls :
            \E prov \in [RequestsOf(a) -> RecResponses] :
                \E r \in {get_recommendations(Scraper, a.masteries, a.role, a.top_n,
                             DEFAULT_MASTERY_WEIGHT, DEFAULT_META_WEIGHT,
                             DEFAULT_COUNTER_WEIGHT, a.min_pickrate,
                             a.enemy_champions, a.ally_champions,
                             a.banned_champions, a.mode, prov,
                             [t |-> now, id_to_name |-> champion_id_to_name])} :
                    /\ SetScraper(r.sc)
                    /\ ret' = [op |-> "get_recommendations", args |-> a,
                               prov |-> prov, result |-> r.result,
                               survivors |-> r.survivors, weights |-> r.weights,
                               lookups |-> r.sc.lookups, contacts |-> r.sc.contacts]
                    /\ UNCHANGED <<now, champion_id_to_name, matchup_cache, matchup_file, dataset, users_file, masteries_file, players_added, threads>>

\* str.upper() and str.capitalize(), to write a role in another case
UpperChar(c) ==
    IF \E i \in 1..26 : LOWER_CHARS[i] = c
    THEN UPPER_CHARS[CHOOSE i \in 1..26 : LOWER_CHARS[i] = c] ELSE c
Upper(s) == [i \in 1..Len(s) |-> UpperChar(s[i])]
Capitalize(s) == [i \in 1..Len(s) |-> IF i = 1 THEN UpperChar(s[i]) ELSE s[i]]

S_unknown == <<"u","n","k","n","o","w","n">>
S_fill == <<"f","i","l","l">>
S_jgl == <<"j","g","l">>
S_carry == <<"c","a","r","r","y">>
S_supp == <<"s","u","p","p">>
S_lane == <<"l","a","n","e">>
S_roam == <<"r","o","a","m">>

\* the role strings of the synonym table, and strings outside it
RoleSynonyms ==
    {S_top, S_jng, S_jungle, S_mid, S_middle, S_bot, S_adc, S_bottom, S_sup,
     S_support, S_utility}
OtherRoles == {S_unknown, S_fill, S_jgl, S_carry, S_supp, S_lane, S_roam, <<>>}
RoleInputs ==
    UNION {{r, Upper(r), Capitalize(r)} : r \in RoleSynonyms \cup OtherRoles}

\* line 106 of fetch_champion_data: the lane asked of the provider for a
\* role, for its lower-case form and for the lane itself
LolaRoleStep ==
    /\ Idle
    /\ \E role \in RoleInputs :
           ret' = [op |-> "lola_role", role |-> role,
                   normalized |-> LolaRole(role),
                   of_lower |-> LolaRole(Lower(role)),
                   again |-> LolaRole(LolaRole(role))]
    /\ UNCHANGED <<now, champion_id_to_name, cache, cache_time, cache_file,
                   stored_at, matchup_cache, matchup_file, dataset, users_file, masteries_file, players_added, threads>>

\* line 172 of get_counter_score (235 of get_blindpick_score): the role of
\* the table key
DsNormalizedRoleStep ==
    /\ Idle
    /\ \E role \in RoleInputs :
           ret' = [op |-> "ds_normalized_role", role |-> role,
                   normalized |-> DsNormalizedRole(role),
                   of_lower |-> DsNormalizedRole(Lower(role)),
                   again |-> DsNormalizedRole(DsNormalizedRole(role))]
    /\ UNCHANGED <<now, champion_id_to_name, cache, cache_time, cache_file,
                   stored_at, matchup_cache, matchup_file, dataset, users_file, masteries_file, players_added, threads>>

\* The two role normalizations
NextRoles == LolaRoleStep \/ DsNormalizedRoleStep \/ Return

SpecRoles == Init /\ [][NextRoles]_vars

\* GET /meta/champion/{champion}?role=..., of meta.py or of main.py
MetaChampionStatsCall ==
    /\ Idle
    /\ \E champion \in LolaChampions, role \in LolaRoles, resp \in Responses,
          module \in {"meta", "main"} :
            \E f \in {FetchChampionData(Scraper, champion, role, resp, now,
                                         champion_id_to_name)} :
                /\ SetScraper(f.sc)
                /\ ret' = [op |-> "meta_champion_stats", module |-> module,
                           champion |-> champion, role |-> role,
                           data |-> f.data,
                           answer |-> meta_champion_stats(champion, role, f.data)]
                /\ UNCHANGED <<now, champion_id_to_name, matchup_cache, matchup_file, dataset, users_file, masteries_file, players_added, threads>>

\* GET /lolalytics/{champion}/{role} of meta.py
LolalyticsChampionStatsCall ==
    /\ Idle
    /\ \E champion \in LolaChampions, role \in LolaRoles, resp \in Responses :
            \E f \in {FetchChampionData(Scraper, champion, role, resp, now,
                                         champion_id_to_name)} :
                /\ SetScraper(f.sc)
                /\ ret' = [op |-> "lolalytics_champion_stats", module |-> "meta",
                           champion |-> champion, role |-> role,
                           data |-> f.data,
                           answer |-> lolalytics_champion_stats(champion, role,
                                                                f.data)]
                /\ UNCHANGED <<now, champion_id_to_name, matchup_cache, matchup_file, dataset, users_file, masteries_file, players_added, threads>>

\* GET /lolalytics/{champion}/{role} of main.py
MainLolalyticsChampionStatsCall ==
    /\ Idle
    /\ \E champion \in LolaChampions, role \in LolaRoles, resp \in Responses :
            \E f \in {FetchChampionData(Scraper, champion, role, resp, now,
                                         champion_id_to_name)} :
                /\ SetScraper(f.sc)
                /\ ret' = [op |-> "lolalytics_champion_stats", module |-> "main",
                           champion |-> champion, role |-> role,
                           data |-> f.data,
                           answer |-> main_lolalytics_champion_stats(
                                          champion, role, f.data)]
                /\ UNCHANGED <<now, champion_id_to_name, matchup_cache, matchup_file, dataset, users_file, masteries_file, players_added, threads>>

\* The stats endpoints on top of the provider client
NextMeta ==
    \/ MetaChampionStatsCall
    \/ LolalyticsChampionStatsCall
    \/ MainLolalyticsChampionStatsCall
    \/ Return

SpecMeta == Init /\ [][NextMeta]_vars

\* everything but the clock, the two JSON files and the call record
engineVars ==
    <<champion_id_to_name, cache, cache_time, cache_file, stored_at,
      matchup_cache, matchup_file, dataset>>

S_A == <<"A">>
S_AhashB == <<"A","#","B">>
S_1 == <<"1">>
S_Bhash1 == <<"B","#","1">>
S_p == <<"p">>
S_q == <<"q">>

\* the riot_ids submitted to /auth: two well formed, one without "#"
AuthRiotIds == {RiotId(S_A, S_1), RiotId(S_AhashB, S_1), S_A}
Passwords == {S_p, S_q}

\* the path parameters of /players/add; ("A", "B#1") and ("A#B", "1") name
\* the same riot_id
GameNames == {S_A, S_AhashB}
TagLines == {S_1, S_Bhash1}

RawMastery(id, level, points) ==
    [championId |-> id, championLevel |-> level, championPoints |-> points,
     lastPlayTime |-> 0]
RawMasteryLists == {<<>>, <<RawMastery(22, 7, 1000), RawMastery(999, 2, 50)>>}

\* what the Riot API answers during a call
Riots ==
    {[found |-> f, ok |-> TRUE, raw |-> l] : f \in BOOLEAN, l \in RawMasteryLists}
        \cup {[found |-> f, ok |-> FALSE, raw |-> <<>>] : f \in BOOLEAN}

\* POST /auth/register
RegisterCall ==
    /\ Idle
    /\ \E riot_id \in AuthRiotIds, password \in Passwords, riot \in Riots :
            \E r \in {register(users_file, masteries_file, riot_id, password,
                               riot, now)} :
                /\ users_file' = r.users
                /\ masteries_file' = r.masteries_data
                /\ ret' = [op |-> "register", riot_id |-> riot_id,
                           password |-> password, status |-> r.status,
                           body |-> r.body, users_before |-> users_file]
    /\ UNCHANGED <<now, engineVars, players_added, threads>>

\* POST /auth/login
LoginCall ==
    /\ Idle
    /\ \E riot_id \in AuthRiotIds, password \in Passwords, riot \in Riots :
            \E r \in {login(users_file, masteries_file, riot_id, password,
                            riot, now)} :
                /\ users_file' = r.users
                /\ masteries_file' = r.masteries_data
                /\ ret' = [op |-> "login", riot_id |-> riot_id,
                           password |-> password, status |-> r.status,
                           body |-> r.body, users_before |-> users_file,
                           fetch_ok |-> riot.ok, before |-> masteries_file]
    /\ UNCHANGED <<now, engineVars, players_added, threads>>

\* POST /masteries/{riot_id}/refresh
RefreshMasteriesCall ==
    /\ Idle
    /\ \E riot_id \in AuthRiotIds, riot \in Riots :
            \E r \in {refresh_masteries(users_file, masteries_file, riot_id,
                                        riot, now)} :
                /\ masteries_file' = r.masteries_data
                /\ ret' = [op |-> "refresh_masteries", riot_id |-> riot_id,
                           status |-> r.status, fetch_ok |-> riot.ok,
                           before |-> masteries_file]
    /\ UNCHANGED <<now, engineVars, users_file, players_added, threads>>

\* POST /players/add/{game_name}/{tag_line}, of players.py or of main.py
AddPlayerCall ==
    /\ Idle
    /\ \E game_name \in GameNames, tag_line \in TagLines, riot \in Riots,
          module \in {"players", "main"} :
            \E r \in {add_player(masteries_file, game_name, tag_line, riot, now)} :
                /\ masteries_file' = r.masteries_data
                /\ players_added' =
                       IF r.status = 200
                       THEN players_added \cup {RiotId(game_name, tag_line)}
                       ELSE players_added
                /\ ret' = [op |-> "add_player", module |-> module,
                           riot_id |-> RiotId(game_name, tag_line),
                           found |-> riot.found, status |-> r.status,
                           message |-> r.message, fetch_ok |-> riot.ok,
                           before |-> masteries_file]
    /\ UNCHANGED <<now, engineVars, users_file, threads>>

\* GET /players, of players.py or of main.py
ListPlayersCall ==
    /\ Idle
    /\ \E module \in {"players", "main"} :
            \E r \in {list_players(masteries_file)} :
                ret' = [op |-> "list_players", module |-> module,
                        status |-> r.status, players |-> r.players,
                        total |-> r.total]
    /\ UNCHANGED <<now, engineVars, users_file, masteries_file, players_added, threads>>

\* by how much a recorded winrate is raised (thousandths of a point)
Raises == {100, 4000, 9000}

\* the table with the winrate of record j of the i-th key raised by d
RaiseDsRecord(matchups, i, j, d) ==
    [matchups EXCEPT ![i][2][j][2].winrate = @ + d]

\* the provider data with the winrate of record j of one list raised by d
RaiseLolaRecord(data, list, j, d) ==
    IF list = "counters"
    THEN [data EXCEPT !.counters[j].winrate = @ + d]
    ELSE [data EXCEPT !.weak_against[j].winrate = @ + d]

\* the records _parse_counter_data builds from the payloads with matchups
LolaDatas ==
    {ParseCounterData(P_matchups, FullIdToName),
     ParseCounterData(P_low, FullIdToName)}

\* matchup_calculator.get_counter_score on a table and on the same table
\* with one recorded winrate raised
DsRaisedWinrateCall ==
    /\ Idle
    /\ \E matchups \in {T_main, T_partial}, champion \in DsChampions,
          role \in DsRoles, enemy_champions \in DsEnemyLists, d \in Raises :
            \E i \in 1..Len(matchups) :
                \E j \in 1..Len(matchups[i][2]) :
                    /\ matchups[i][2][j][2].winrate + d <= 100000
                    /\ ret' = [op |-> "ds_raised_winrate",
                               champion |-> champion, role |-> role,
                               enemy_champions |-> enemy_champions,
                               table |-> matchups, i |-> i, j |-> j, d |-> d,
                               score_before |->
                                   DsGetCounterScore(matchups, champion, role,
                                                     enemy_champions),
                               score_after |->
                                   DsGetCounterScore(
                                       RaiseDsRecord(matchups, i, j, d),
                                       champion, role, enemy_champions)]
    /\ UNCHANGED <<now, engineVars, users_file, masteries_file, players_added, threads>>

\* LolalyticsScraper.get_counter_score on the fetched data and on the same
\* data with one recorded winrate raised
LolaRaisedWinrateCall ==
    /\ Idle
    /\ \E data \in LolaDatas, enemy_champions \in LolaEnemyLists \ {<<>>},
          list \in {"counters", "weak_against"}, d \in Raises :
            \E j \in 1..Len(IF list = "counters" THEN data.counters
                            ELSE data.weak_against) :
                /\ (IF list = "counters" THEN data.counters[j].winrate
                    ELSE data.weak_against[j].winrate) + d <= 100000
                /\ ret' = [op |-> "lola_raised_winrate",
                           enemy_champions |-> enemy_champions,
                           data |-> data, list |-> list, j |-> j, d |-> d,
                           score_before |->
                               LolaCounterScoreOf(data, enemy_champions),
                           score_after |->
                               LolaCounterScoreOf(
                                   RaiseLolaRecord(data, list, j, d),
                                   enemy_champions)]
    /\ UNCHANGED <<now, engineVars, users_file, masteries_file, players_added, threads>>

\* The counter scorers on two inputs differing in one recorded winrate
NextMonotone == DsRaisedWinrateCall \/ LolaRaisedWinrateCall \/ Return

SpecMonotone == Init /\ [][NextMonotone]_vars

\* a "vs" dict of h records below 45, s records in [45, 48), f records
\* above 52 and n records in [48, 52], each against another champion; the
\* winrates include the ends of the intervals
VsRecord(i, winrate) == <<K(Decimal(i), S_mid), Rec(0, DS_MIN_GAMES, winrate)>>
VsOf(h, s, f, n) ==
    [i \in 1..(h + s + f + n) |->
        IF i <= h THEN VsRecord(i, IF i % 2 = 1 THEN 44900 ELSE 0)
        ELSE IF i <= h + s THEN VsRecord(i, IF i % 2 = 1 THEN 45000 ELSE 47900)
        ELSE IF i <= h + s + f
        THEN VsRecord(i, IF i % 2 = 1 THEN 52100 ELSE 100000)
        ELSE VsRecord(i, IF i % 2 = 1 THEN 48000 ELSE 52000)]

\* matchup_calculator.get_blindpick_score for a champion whose "vs" dict is
\* VsOf(h, s, f, n)
DsBlindpickOfVsCall ==
    /\ Idle
    /\ \E h \in 0..MaxHard, s \in 0..MaxSoft, f \in {0, 1, 14, 15, 16, MaxFavorable},
          n \in 0..2, role \in {S_bot, S_ADC, S_sup} :
            \E table \in {<< <<K(S_Ashe, S_bot), VsOf(h, s, f, n)>> >>} :
                ret' = [op |-> "ds_blindpick_of_vs", role |-> role,
                        h |-> h, s |-> s, f |-> f, n |-> n, table |-> table,
                        score |-> DsGetBlindpickScore(table, S_Ashe, role)]
    /\ UNCHANGED <<now, engineVars, users_file, masteries_file, players_added, threads>>

\* The dataset-backed blind-pick scorer over "vs" dicts of every size
NextBlindpick == DsBlindpickOfVsCall \/ Return

SpecBlindpick == Init /\ [][NextBlindpick]_vars

\* mastery lists around the cap: n records that are all skipped (no name),
\* all excluded (Thresh, when banned) or of which the first two are scored
\* (Thresh, level 4), then Ashe and Jinx
LongMasteries(n, kind) ==
    [i \in 1..n |->
        IF kind = "unnamed" \/ (kind = "mixed" /\ i > 2)
        THEN Mastery(<<>>, 5, 1000)
        ELSE IF kind = "banned" THEN Mastery(S_Thresh, 7, 999)
        ELSE Mastery(S_Thresh, 4, 500)]
    \o <<Mastery(S_Ashe, 7, 1000), Mastery(S_Jinx, 7, 999)>>

LongCalls ==
    {Args(LongMasteries(n, kind), S_bot, top_n, 500, NoneList, NoneList,
          IF kind = "banned" THEN <<S_Thresh>> ELSE NoneList, "balanced") :
        n \in (MAX_CANDIDATES - 2)..MAX_CANDIDATES,
        kind \in {"unnamed", "banned", "mixed"},
        top_n \in {5, MAX_CANDIDATES + 10}}

\* get_recommendations(...) for a player with more than 30 masteries
GetRecommendationsLongCall ==
    /\ Idle
    /\ \E a \in LongCalls :
            \E prov \in [RequestsOf(a) -> {[kind |-> "timeout"], Json(P_matchups)}] :
                \E r \in {get_recommendations(Scraper, a.masteries, a.role, a.top_n,
                             DEFAULT_MASTERY_WEIGHT, DEFAULT_META_WEIGHT,
                             DEFAULT_COUNTER_WEIGHT, a.min_pickrate,
                             a.enemy_champions, a.ally_champions,
                             a.banned_champions, a.mode, prov,
                             [t |-> now, id_to_name |-> champion_id_to_name])} :
                    /\ SetScraper(r.sc)
                    /\ ret' = [op |-> "get_recommendations", args |-> a,
                               prov |-> prov, result |-> r.result,
                               survivors |-> r.survivors, weights |-> r.weights,
                               lookups |-> r.sc.lookups, contacts |-> r.sc.contacts]
                    /\ UNCHANGED <<now, champion_id_to_name, matchup_cache, matchup_file, dataset, users_file, masteries_file, players_added, threads>>

\* The recommender for players with more masteries than the cap
NextLong == GetRecommendationsLongCall \/ Return

SpecLong == Init /\ [][NextLong]_vars

\* Accounts: registrations and logins
NextAuth == RegisterCall \/ LoginCall \/ RefreshMasteriesCall \/ Return

SpecAuth == Init /\ [][NextAuth]_vars

\* ---- fetch_champion_data on a thread, statement by statement ----
ThreadResponses == {[kind |-> "timeout"], Json(P_matchups), Json(P_plain)}

SetThread(t, r) == threads' = [threads EXCEPT ![t] = r]

sharedVars ==
    <<cache, cache_time, cache_file, stored_at, matchup_cache, matchup_file>>

\* lines 106-107: cache_key = f"{champion.lower()}_{lola_role}"
BeginLookup(t) ==
    /\ threads[t].pc = "idle"
    /\ \E champion \in LolaChampions :
            SetThread(t, [IdleThread EXCEPT !.pc = "check_key",
                             !.cache_key = CacheKey(champion, S_bot)])
    /\ UNCHANGED <<now, champion_id_to_name, sharedVars, dataset, users_file,
                   masteries_file, players_added, ret>>

\* _is_cache_valid, lines 88-89: if cache_key not in self.cache
CheckKey(t) ==
    /\ threads[t].pc = "check_key"
    /\ LET th == threads[t] IN
       IF th.cache_key \in DOMAIN cache
       THEN SetThread(t, [th EXCEPT !.pc = "check_time",
                              !.obs.entry_at = stored_at[th.cache_key]])
       ELSE SetThread(t, [th EXCEPT !.pc = "request"])
    /\ UNCHANGED <<now, champion_id_to_name, sharedVars, dataset, users_file,
                   masteries_file, players_added, ret>>

\* _is_cache_valid, lines 90-92: the timestamp is read
CheckTime(t) ==
    /\ threads[t].pc = "check_time"
    /\ LET th == threads[t]
           valid == cache_time # NoTime /\ now - cache_time < CACHE_DURATION
       IN  SetThread(t, [th EXCEPT
                            !.pc = IF valid THEN "return_cached" ELSE "request",
                            !.obs.seen = TRUE,
                            !.obs.cache_time = cache_time])
    /\ UNCHANGED <<now, champion_id_to_name, sharedVars, dataset, users_file,
                   masteries_file, players_added, ret>>

\* line 111: return self.cache[cache_key]
ReturnCached(t) ==
    /\ threads[t].pc = "return_cached"
    /\ SetThread(t, [threads[t] EXCEPT !.pc = "done",
                        !.result = cache[threads[t].cache_key]])
    /\ UNCHANGED <<now, champion_id_to_name, sharedVars, dataset, users_file,
                   masteries_file, players_added, ret>>

\* lines 113-148 and 155-160: the request, and the parse into a local
SendRequest(t) ==
    /\ threads[t].pc = "request"
    /\ \E resp \in ThreadResponses :
            IF resp.kind = "timeout"
            THEN SetThread(t, [threads[t] EXCEPT !.pc = "done",
                                   !.result = EmptyData])
            ELSE SetThread(t, [threads[t] EXCEPT !.pc = "store_entry",
                                   !.result = ParseCounterData(resp.body,
                                                  champion_id_to_name)])
    /\ UNCHANGED <<now, champion_id_to_name, sharedVars, dataset, users_file,
                   masteries_file, players_added, ret>>

\* line 151: self.cache[cache_key] = result
StoreEntry(t) ==
    /\ threads[t].pc = "store_entry"
    /\ cache' = (threads[t].cache_key :> threads[t].result) @@ cache
    /\ stored_at' = (threads[t].cache_key :> now) @@ stored_at
    /\ SetThread(t, [threads[t] EXCEPT !.pc = "store_time"])
    /\ UNCHANGED <<now, champion_id_to_name, cache_time, cache_file,
                   matchup_cache, matchup_file, dataset, users_file,
                   masteries_file, players_added, ret>>

\* line 152: self.cache_time = datetime.now()
StoreTime(t) ==
    /\ threads[t].pc = "store_time"
    /\ cache_time' = now
    /\ SetThread(t, [threads[t] EXCEPT !.pc = "save_cache"])
    /\ UNCHANGED <<now, champion_id_to_name, cache, cache_file, stored_at,
                   matchup_cache, matchup_file, dataset, users_file,
                   masteries_file, players_added, ret>>

\* line 153: self._save_cache()
SaveCache(t) ==
    /\ threads[t].pc = "save_cache"
    /\ cache_file' = [timestamp |-> now, matchups |-> cache]
    /\ SetThread(t, [threads[t] EXCEPT !.pc = "done"])
    /\ UNCHANGED <<now, champion_id_to_name, cache, cache_time, stored_at,
                   matchup_cache, matchup_file, dataset, users_file,
                   masteries_file, players_added, ret>>

\* ---- load_matchup_data on a thread, statement by statement ----
\* a lookup of the dataset-backed scorer starts
BeginLoad(t) ==
    /\ threads[t].pc = "idle"
    /\ SetThread(t, [IdleThread EXCEPT !.pc = "load_check_cache"])
    /\ UNCHANGED <<now, champion_id_to_name, sharedVars, dataset, users_file,
                   masteries_file, players_added, ret>>

\* lines 36-37: if _matchup_cache: return _matchup_cache
LoadCheckCache(t) ==
    /\ threads[t].pc = "load_check_cache"
    /\ IF matchup_cache # NoTable /\ matchup_cache # <<>>
       THEN SetThread(t, [threads[t] EXCEPT !.pc = "loaded",
                              !.table = matchup_cache])
       ELSE SetThread(t, [threads[t] EXCEPT !.pc = "load_check_file"])
    /\ UNCHANGED <<now, champion_id_to_name, sharedVars, dataset, users_file,
                   masteries_file, players_added, ret>>

\* lines 39-45: the cache file is read and parsed; an exception is caught
LoadCheckFile(t) ==
    /\ threads[t].pc = "load_check_file"
    /\ IF matchup_file.exists /\ matchup_file.table # Unparsable
       THEN SetThread(t, [threads[t] EXCEPT !.pc = "load_assign",
                              !.table = matchup_file.table])
       ELSE SetThread(t, [threads[t] EXCEPT !.pc = "load_build"])
    /\ UNCHANGED <<now, champion_id_to_name, sharedVars, dataset, users_file,
                   masteries_file, players_added, ret>>

\* lines 47-128: without dataset {} is returned; with it the table is built
\* in the locals matchups and result
LoadBuild(t) ==
    /\ threads[t].pc = "load_build"
    /\ IF ~dataset.exists
       THEN SetThread(t, [threads[t] EXCEPT !.pc = "loaded", !.table = <<>>])
       ELSE SetThread(t, [threads[t] EXCEPT !.pc = "load_write_open",
                              !.table = BuildMatchups(dataset.rows)])
    /\ UNCHANGED <<now, champion_id_to_name, sharedVars, dataset, users_file,
                   masteries_file, players_added, ret>>

\* line 131, CACHE_FILE.write_text: the file is opened and truncated
LoadWriteOpen(t) ==
    /\ threads[t].pc = "load_write_open"
    /\ matchup_file' = [exists |-> TRUE, table |-> Unparsable]
    /\ SetThread(t, [threads[t] EXCEPT !.pc = "load_write"])
    /\ UNCHANGED <<now, champion_id_to_name, cache, cache_time, cache_file,
                   stored_at, matchup_cache, dataset, users_file,
                   masteries_file, players_added, ret>>

\* line 131, CACHE_FILE.write_text: the text is written and the file closed
LoadWrite(t) ==
    /\ threads[t].pc = "load_write"
    /\ matchup_file' = [exists |-> TRUE, table |-> threads[t].table]
    /\ SetThread(t, [threads[t] EXCEPT !.pc = "load_assign"])
    /\ UNCHANGED <<now, champion_id_to_name, cache, cache_time, cache_file,
                   stored_at, matchup_cache, dataset, users_file,
                   masteries_file, players_added, ret>>

\* lines 42 and 135: _matchup_cache = data, _matchup_cache = result
LoadAssign(t) ==
    /\ threads[t].pc = "load_assign"
    /\ matchup_cache' = threads[t].table
    /\ SetThread(t, [threads[t] EXCEPT !.pc = "loaded"])
    /\ UNCHANGED <<now, champion_id_to_name, cache, cache_time, cache_file,
                   stored_at, matchup_file, dataset, users_file,
                   masteries_file, players_added, ret>>

\* the call returns to its caller
Finish(t) ==
    /\ threads[t].pc \in {"done", "loaded"}
    /\ SetThread(t, IdleThread)
    /\ UNCHANGED <<now, champion_id_to_name, sharedVars, dataset, users_file,
                   masteries_file, players_added, ret>>

\* time passes between the calls
TickBetweenCalls ==
    /\ \A t \in Threads : threads[t].pc = "idle"
    /\ Tick

InitThreads ==
    /\ now = 0
    /\ champion_id_to_name = FullIdToName
    /\ cache = <<>>
    /\ cache_time = NoTime
    /\ cache_file = NoFile
    /\ stored_at = <<>>
    /\ matchup_cache = NoTable
    /\ matchup_file = NoDisk
    /\ dataset \in {[exists |-> TRUE, rows |-> d] :
                       d \in {Rows(MaxWon, MaxLost, DS_MIN_GAMES, 2026),
                              Rows(MaxWon, 0, 0, 2024)}}
    /\ users_file = <<>>
    /\ masteries_file = <<>>
    /\ players_added = {}
    /\ ret = [op |-> "none"]
    /\ threads = [t \in Threads |-> IdleThread]

\* Two threads of lookups, provider-backed and dataset-backed
NextThreads ==
    \/ TickBetweenCalls
    \/ \E t \in Threads :
        \/ BeginLookup(t) \/ CheckKey(t) \/ CheckTime(t) \/ ReturnCached(t)
        \/ SendRequest(t) \/ StoreEntry(t) \/ StoreTime(t) \/ SaveCache(t)
        \/ BeginLoad(t) \/ LoadCheckCache(t) \/ LoadCheckFile(t)
        \/ LoadBuild(t) \/ LoadWriteOpen(t) \/ LoadWrite(t) \/ LoadAssign(t)
        \/ Finish(t)

SpecThreads == InitThreads /\ [][NextThreads]_vars

\* Tracked players over time
NextPlayers == AddPlayerCall \/ ListPlayersCall \/ Tick \/ Return

SpecPlayers == Init /\ [][NextPlayers]_vars

\* The provider client over time: fetches, cache expiry
Next == Tick \/ FetchChampionDataCall \/ Return

Spec == Init /\ [][Next]_vars

\* The tier classifier alone
NextTier == CalculateTierCall \/ Return

SpecTier == Init /\ [][NextTier]_vars

\* The four scorers, provider-backed and dataset-backed
NextScorers ==
    \/ LolaGetCounterScoreCall
    \/ LolaGetBlindpickScoreCall
    \/ DsGetCounterScoreCall
    \/ DsGetBlindpickScoreCall
    \/ Return

\* as Init, CACHE_FILE of the dataset-backed scorers absent or holding a table
InitScorers ==
    /\ now = 0
    /\ champion_id_to_name \in {FullIdToName, <<>>}
    /\ cache = <<>>
    /\ cache_time = NoTime
    /\ cache_file = NoFile
    /\ stored_at = <<>>
    /\ matchup_cache = NoTable
    /\ matchup_file \in Disks
    /\ dataset = NoDataset
    /\ users_file = <<>>
    /\ masteries_file = <<>>
    /\ players_added = {}
    /\ ret = [op |-> "none"]
    /\ threads = [t \in Threads |-> IdleThread]

SpecScorers == InitScorers /\ [][NextScorers]_vars

\* The dataset-backed scorers on the table built from a dataset
InitDataset ==
    /\ now = 0
    /\ champion_id_to_name = FullIdToName
    /\ cache = <<>>
    /\ cache_time = NoTime
    /\ cache_file = NoFile
    /\ stored_at = <<>>
    /\ matchup_cache = NoTable
    /\ matchup_file = NoDisk
    /\ dataset \in {[exists |-> TRUE, rows |-> d] : d \in Datasets}
    /\ users_file = <<>>
    /\ masteries_file = <<>>
    /\ players_added = {}
    /\ ret = [op |-> "none"]
    /\ threads = [t \in Threads |-> IdleThread]

NextDataset == DsGetCounterScoreCall \/ DsGetBlindpickScoreCall \/ Return

SpecDataset == InitDataset /\ [][NextDataset]_vars


\* The recommender on top of the provider client
NextRec == GetRecommendationsCall \/ Return

SpecRec == Init /\ [][NextRec]_vars

(***************************************************************************)
(* Properties                                                              *)
(***************************************************************************)
Recommended == ret.op = "get_recommendations"

\* the case-insensitive names of an optional list
NamesOf(l) == IF l = NoneList THEN {} ELSE {Lower(l[i]) : i \in 1..Len(l)}

\* banned_champions, ally_champions and enemy_champions of a call together
Unavailable(a) ==
    NamesOf(a.banned_champions) \cup NamesOf(a.ally_champions)
        \cup NamesOf(a.enemy_champions)

\* C1: no recommendation returned by get_recommendations names a champion
\* that is, case-insensitively, in banned_champions, ally_champions or
\* enemy_champions, whatever its mastery, stats or mode.
C1_UnavailableNeverReturned ==
    Recommended =>
        \A i \in 1..Len(ret.result) :
            Lower(ret.result[i].champion) \notin Unavailable(ret.args)

\* a call whose best mastery is unavailable and which still returns another
\* champion
C1_Witness ==
    /\ Recommended
    /\ ret.result # <<>>
    /\ \E i \in 1..Len(ret.args.masteries) :
           /\ Lower(ret.args.masteries[i].champion_name) \in Unavailable(ret.args)
           /\ \A j \in 1..Len(ret.args.masteries) :
                  ret.args.masteries[j].champion_points
                      <= ret.args.masteries[i].champion_points

NoMasteriesOrRole ==
    ret.args.masteries = <<>> \/ ret.args.role = NoneStr \/ ret.args.role = <<>>

RankedBefore(r, s) ==
    r.score > s.score \/ (r.score = s.score /\ r.pos < s.pos)

\* r is ranked before s by the unrounded final score, input order breaking ties
RankedBeforeUnrounded(r, s) ==
    r.final_score > s.final_score
        \/ (r.final_score = s.final_score /\ r.pos < s.pos)

Returned == {ret.result[i] : i \in 1..Len(ret.result)}
Survivors == {ret.survivors[i] : i \in 1..Len(ret.survivors)}

\* C3: the list returned by get_recommendations holds surviving candidates
\* in descending order of their returned score (final_score rounded to three
\* decimals), candidates of equal returned score in mastery-input order; no
\* surviving candidate left out is ranked before a returned one; for
\* top_n >= 0 the list has min(top_n, number of survivors) elements, and for
\* top_n < 0 it lacks the last -top_n elements of the ranking.
C3_RankedByReturnedScore ==
    Recommended =>
        /\ Returned \subseteq Survivors
        /\ \A i, j \in 1..Len(ret.result) :
               i < j => RankedBefore(ret.result[i], ret.result[j])
        /\ \A r \in Returned, s \in Survivors \ Returned : RankedBefore(r, s)
        /\ Len(ret.result) =
               IF ret.args.top_n >= 0
               THEN Min(ret.args.top_n, Len(ret.survivors))
               ELSE Max(Len(ret.survivors) + ret.args.top_n, 0)

\* two survivors, the later mastery scoring higher, and only one returned
C3_Witness ==
    /\ Recommended
    /\ Len(ret.survivors) = 2
    /\ ret.survivors[1].score < ret.survivors[2].score
    /\ ret.args.top_n = 1
    /\ ret.result = <<ret.survivors[2]>>

\* C3 as stated: the list is ordered by final score descending, equal scores
\* in mastery-input order, no returned candidate has a lower final score than
\* a survivor left out, and its length is at most top_n.
C3_RankedByFinalScore ==
    Recommended /\ ~NoMasteriesOrRole =>
        /\ \A i, j \in 1..Len(ret.result) :
               i < j => RankedBeforeUnrounded(ret.result[i], ret.result[j])
        /\ \A r \in Returned, s \in Survivors \ Returned :
               r.final_score >= s.final_score
        /\ Len(ret.result) <= ret.args.top_n

Weights(mastery, meta, counter) ==
    [mastery |-> mastery, meta |-> meta, counter |-> counter]

\* C4: with the default weights, get_recommendations uses the triple
\* (mastery, meta, counter) = (0.25, 0.30, 0.45) in balanced mode,
\* (0.15, 0.20, 0.65) in counter mode with enemies, (0.25, 0.45, 0.30) in
\* blind mode, (0.55, 0.25, 0.20) in comfort mode and the balanced triple for
\* an unrecognized mode; the three weights always sum to 1.0.
C4_WeightsOfMode ==
    Recommended /\ ~NoMasteriesOrRole =>
        LET mode == ret.args.mode
            enemies == ret.args.enemy_champions
            w == ret.weights
        IN  /\ mode = "balanced" => w = Weights(25, 30, 45)
            /\ mode = "counter" /\ enemies # NoneList /\ enemies # <<>>
                   => w = Weights(15, 20, 65)
            /\ mode = "blind" => w = Weights(25, 45, 30)
            /\ mode = "comfort" => w = Weights(55, 25, 20)
            /\ mode \notin {"balanced", "counter", "blind", "comfort"}
                   => w = Weights(25, 30, 45)
            /\ w.mastery + w.meta + w.counter = 100

\* a comfort call whose candidate is scored with the comfort weights
C4_Witness ==
    /\ Recommended
    /\ ret.args.mode = "comfort"
    /\ ret.weights = Weights(55, 25, 20)
    /\ ret.result # <<>>

Fetched == ret.op = "fetch_champion_data"

\* C5 as stated for fetch_champion_data: when the provider fails (timeout,
\* non-200 response, undecodable body) or answers a malformed payload, the
\* lookup does not raise and yields the neutral record.
C5_FailureYieldsNeutralRecord ==
    Fetched /\ ret.resp \in Failures \cup Malformed =>
        ~ret.raised /\ ret.data = EmptyData

\* C6 as stated: fetch_champion_data serves a cached entry only while that
\* entry is younger than CACHE_DURATION.
C6_ServedOnlyWhileYoung ==
    Fetched /\ ret.hit => ret.age < CACHE_DURATION

CounterScored == ret.op \in {"lola_get_counter_score", "ds_get_counter_score"}

\* the table has no key for the champion, with its role or with another
NoTableKey(table, champion) ==
    \A i \in 1..Len(table) : ~StartsWith(table[i][1], champion \o S_us)

\* C7: get_counter_score returns exactly 50.0 when the enemy list is empty,
\* and also when no data exists for the subject champion: no table key in
\* the dataset-backed implementation, games = 0 in the provider-backed one.
C7_NeutralCounterScore ==
    /\ CounterScored /\ ret.enemy_champions = <<>> => ret.score = 50000
    /\ ret.op = "ds_get_counter_score" /\ NoTableKey(ret.table, ret.champion)
           => ret.score = 50000
    /\ ret.op = "lola_get_counter_score" /\ ret.data.games = 0
           => ret.score = 50000

\* the dataset-backed scorer asked about enemies for a subject the loaded
\* table does not know, although it knows other champions
C7_Witness ==
    /\ ret.op = "ds_get_counter_score"
    /\ ret.enemy_champions # <<>>
    /\ ret.table # <<>>
    /\ NoTableKey(ret.table, ret.champion)
    /\ ret.score = 50000

\* the winrate of the subject against enemy in its "vs" dict, 50 when it
\* has no record against that enemy
DsWinrateOr50(vs, enemy) ==
    IF HasPrefixKey(vs, enemy \o S_us)
    THEN vs[FirstPrefixIndex(vs, enemy \o S_us)][2].winrate
    ELSE 50000

RECURSIVE DsTotalWith50(_, _, _)
DsTotalWith50(vs, enemy_champions, i) ==
    IF i > Len(enemy_champions) THEN 0
    ELSE DsWinrateOr50(vs, enemy_champions[i])
         + DsTotalWith50(vs, enemy_champions, i + 1)

\* C8 as stated: in both implementations every enemy without a matchup
\* record counts as a winrate of 50 in the average, whose divisor is the
\* number of enemies.
C8_MissingEnemyCountsFifty ==
    /\ ret.op = "lola_get_counter_score" /\ ret.enemy_champions # <<>>
         /\ ret.data.games > 0
           => ret.score = RescaleAverage(
                  LolaTotalScore(ret.data, ret.enemy_champions, 1),
                  Len(ret.enemy_champions))
    /\ ret.op = "ds_get_counter_score" /\ ret.enemy_champions # <<>>
         /\ DsChampMatchups(ret.table, ret.champion, ret.role).vs # <<>>
           => ret.score = RescaleAverage(
                  DsTotalWith50(DsChampMatchups(ret.table, ret.champion,
                                                ret.role).vs,
                                ret.enemy_champions, 1),
                  Len(ret.enemy_champions))

\* C9: get_blindpick_score returns 50.0 when nothing is known of the
\* champion (no table key in the dataset-backed implementation, games = 0 in
\* the provider-backed one); when the champion is known without opposing
\* matchups it returns 60.0 in the dataset-backed implementation (empty "vs"
\* dict) and 75.0 in the provider-backed one (empty weak_against list).
C9_BlindpickWithoutMatchups ==
    /\ ret.op = "ds_get_blindpick_score" =>
           /\ NoTableKey(ret.table, ret.champion) => ret.score = 50000
           /\ ~NoTableKey(ret.table, ret.champion)
                /\ DsChampMatchups(ret.table, ret.champion, ret.role).vs = <<>>
                  => ret.score = 60000
    /\ ret.op = "lola_get_blindpick_score" =>
           /\ ret.data.games = 0 => ret.score = 50000
           /\ ret.data.games > 0 /\ ret.data.weak_against = <<>>
                  => ret.score = 75000

\* the provider knows the champion but no matchup it loses
C9_Witness ==
    /\ ret.op = "lola_get_blindpick_score"
    /\ ret.data.games > 0
    /\ ret.data.weak_against = <<>>
    /\ ret.score = 75000

\* C9 as stated: in both implementations 60.0 without any matchup profile
\* and 75.0 with a profile that records no opposing matchup.
C9_SixtyAndSeventyFive ==
    /\ ret.op = "ds_get_blindpick_score" =>
           /\ NoTableKey(ret.table, ret.champion) => ret.score = 60000
           /\ ~NoTableKey(ret.table, ret.champion)
                /\ DsChampMatchups(ret.table, ret.champion, ret.role).vs = <<>>
                  => ret.score = 75000
    /\ ret.op = "lola_get_blindpick_score" =>
           /\ ret.data.games = 0 => ret.score = 60000
           /\ ret.data.games > 0 /\ ret.data.weak_against = <<>>
                  => ret.score = 75000

\* C10: calculate_tier is the threshold function S if winrate >= 53, else A
\* if >= 51, else B if >= 49, else C if >= 47, else D, for every winrate
\* and whatever the pickrate; so 53.0 is S, 52.99 A, 51.0 A, 50.99 B, 49.0 B,
\* 48.99 C, 47.0 C and 46.99 D.
C10_TierThresholds ==
    ret.op = "calculate_tier" =>
        /\ ret.tier = (IF ret.winrate >= 53000 THEN "S"
                       ELSE IF ret.winrate >= 51000 THEN "A"
                       ELSE IF ret.winrate >= 49000 THEN "B"
                       ELSE IF ret.winrate >= 47000 THEN "C"
                       ELSE "D")
        /\ ret.winrate = 53000 => ret.tier = "S"
        /\ ret.winrate = 52990 => ret.tier = "A"
        /\ ret.winrate = 51000 => ret.tier = "A"
        /\ ret.winrate = 50990 => ret.tier = "B"
        /\ ret.winrate = 49000 => ret.tier = "B"
        /\ ret.winrate = 48990 => ret.tier = "C"
        /\ ret.winrate = 47000 => ret.tier = "C"
        /\ ret.winrate = 46990 => ret.tier = "D"

\* the S threshold itself, at a pickrate of 0
C10_Witness ==
    /\ ret.op = "calculate_tier"
    /\ ret.winrate = 53000
    /\ ret.pickrate = 0
    /\ ret.tier = "S"

DatasetScored == ret.op \in {"ds_get_counter_score", "ds_get_blindpick_score"}

\* the champion_role keys of a row of the dataset
KeysOfRow(row) ==
    LET champs == get_champions(row.picks, 1) IN
    {ChampKey(champs[i]) : i \in 1..Len(champs)}
NamesOfRow(row) ==
    LET champs == get_champions(row.picks, 1) IN
    {champs[i].name : i \in 1..Len(champs)}

\* the games of the season counted: those of exactly two rows
GamesOf(rows) ==
    LET df == RowsOfSeason(rows)
        ids == {df[i].gameid : i \in 1..Len(df)}
    IN  {SelectSeq(df, LAMBDA r : r.gameid = g) : g \in
            {h \in ids : Len(SelectSeq(df, LAMBDA r : r.gameid = h)) = 2}}

\* the number of games in which key faced vs_key
Observed(rows, key, vs_key) ==
    Cardinality({g \in GamesOf(rows) :
        \/ key \in KeysOfRow(g[1]) /\ vs_key \in KeysOfRow(g[2])
        \/ key \in KeysOfRow(g[2]) /\ vs_key \in KeysOfRow(g[1])})

\* the games in which champion a, in any role, faced champion b, and those
\* of them a's side won
GamesMet(rows, a, b) ==
    {g \in GamesOf(rows) :
        \/ a \in NamesOfRow(g[1]) /\ b \in NamesOfRow(g[2])
        \/ a \in NamesOfRow(g[2]) /\ b \in NamesOfRow(g[1])}
GamesWon(rows, a, b) ==
    {g \in GamesMet(rows, a, b) :
        \/ a \in NamesOfRow(g[1]) /\ g[1].result = 1
        \/ a \in NamesOfRow(g[2]) /\ g[1].result # 1}

\* C11: in the table load_matchup_data builds from a dataset (each champion
\* picked once in a game), every record is of a (champion_role, opposing
\* champion_role) pair observed in 5 games or more; and when champion A met
\* champion B in fewer than 5 games (so in 4 games, 3 of them won),
\* get_counter_score(A, role, [B]) on that table returns the neutral 50.0.
C11_FloorEnforced ==
    DatasetScored =>
        /\ \A c \in 1..Len(ret.table) : \A v \in 1..Len(ret.table[c][2]) :
               Observed(dataset.rows, ret.table[c][1], ret.table[c][2][v][1]) >= 5
        /\ ret.op = "ds_get_counter_score" /\ Len(ret.enemy_champions) = 1
             /\ Cardinality(GamesMet(dataset.rows, ret.champion,
                                     ret.enemy_champions[1])) < 5
               => ret.score = 50000

\* Ashe met Jinx in 4 games and won 3; the table just built has a record
\* for Ashe against Thresh, none against Jinx, and the score is neutral
C11_Witness ==
    /\ ret.op = "ds_get_counter_score"
    /\ ret.built
    /\ ret.champion = S_Ashe
    /\ ret.enemy_champions = <<S_Jinx>>
    /\ Cardinality(GamesMet(dataset.rows, S_Ashe, S_Jinx)) = 4
    /\ Cardinality(GamesWon(dataset.rows, S_Ashe, S_Jinx)) = 3
    /\ DsChampMatchups(ret.table, S_Ashe, ret.role).vs # <<>>
    /\ ret.score = 50000

RoleNormalized == ret.op \in {"lola_role", "ds_normalized_role"}

\* the classes of the synonym table
RoleClasses ==
    {{S_top}, {S_jng, S_jungle}, {S_mid, S_middle}, {S_bot, S_adc, S_bottom},
     {S_sup, S_support, S_utility}}

\* what the normalization examined maps a lower-case role to
NormalizedBy(op, role) ==
    IF op = "lola_role" THEN LolaRole(role) ELSE DsNormalizedRole(role)

\* C12 as stated, for ROLE_MAP and for role_map: the normalization is
\* idempotent and case-insensitive, maps the synonyms of a class to one
\* role, and maps every string outside the synonym table to "unknown".
C12_RoleNormalization ==
    RoleNormalized =>
        /\ ret.again = ret.normalized
        /\ ret.of_lower = ret.normalized
        /\ \A class \in RoleClasses :
               Lower(ret.role) \in class =>
                   \A other \in class :
                       ret.normalized = NormalizedBy(ret.op, other)
        /\ Lower(ret.role) \notin UNION RoleClasses
               => ret.normalized = S_unknown

\* the balanced scenario answered by the provider with winrate 52.0,
\* pickrate 5.0, games 10000 and no matchup entry
BalancedScenarioRun ==
    /\ Recommended
    /\ ret.args = BalancedScenario
    /\ ret.prov = (Request(S_Ashe, S_bottom) :> Json(P_plain))

\* C13: in the balanced scenario get_recommendations returns exactly one
\* recommendation, for Ashe; its blind-pick component is the provider-backed
\* scorer's 75.0 (0.75); its score is 0.4667 * 0.30 + 1.0 * 0.25 + 0.75 * 0.45
\* = 0.7275 before bonuses and 0.80025 after the single x1.10 bonus, returned
\* rounded as 0.8.
C13_BalancedScenario ==
    BalancedScenarioRun =>
        /\ Len(ret.result) = 1
        /\ ret.result[1].champion = S_Ashe
        /\ ret.result[1].counter_score = 75000
        /\ ret.result[1].final_score = ((7275 * (SCORE_ONE \div 10000)) * 110) \div 100
        /\ ret.result[1].score = 800

\* the scenario has run and returned Ashe with a score of 0.8
C13_Witness ==
    /\ BalancedScenarioRun
    /\ Len(ret.result) = 1
    /\ ret.result[1].champion = S_Ashe
    /\ ret.result[1].mastery_points = 500000
    /\ ret.result[1].score = 800

\* C13 as stated: one recommendation, for Ashe, with a blind-pick component
\* of 60.0 (0.6) and a score of 0.6701 before bonuses, 0.737 after the x1.10
\* bonus.
C13_SixtyAndPoint737 ==
    BalancedScenarioRun =>
        /\ Len(ret.result) = 1
        /\ ret.result[1].champion = S_Ashe
        /\ ret.result[1].counter_score = 60000
        /\ ret.result[1].final_score = ((6701 * (SCORE_ONE \div 10000)) * 110) \div 100
        /\ ret.result[1].score = 737

StatsServed ==
    /\ ret.op \in {"meta_champion_stats", "lolalytics_champion_stats"}
    /\ ret.answer.status = 200

MatchupNames(l) == {l[i].champion : i \in 1..Len(l)}

\* C14 as stated: in the stats of a 200 answer of the /lolalytics and
\* /meta/champion endpoints, every entry of counters has a subject winrate
\* of 52% or more, every entry of weak_against one of 48% or less, and no
\* champion is in both lists.
C14_CountersAreStrongAgainst ==
    StatsServed =>
        LET stats == ret.answer.body.stats IN
        /\ \A i \in 1..Len(stats.counters) : stats.counters[i].winrate >= 52000
        /\ \A i \in 1..Len(stats.weak_against) :
               stats.weak_against[i].winrate <= 48000
        /\ MatchupNames(stats.counters) \cap MatchupNames(stats.weak_against) = {}

StatsAsked == ret.op \in {"meta_champion_stats", "lolalytics_champion_stats"}

\* C17 as stated: GET /lolalytics/{champion}/{role} and GET
\* /meta/champion/{champion}, of meta.py and of main.py, answer 404 when the
\* stats looked up have games = 0, and otherwise 200 with the champion, the
\* role and the stats; no other status is answered.
C17_NotFoundIs404 ==
    StatsAsked =>
        IF ret.data.games = 0 THEN ret.answer.status = 404
        ELSE /\ ret.answer.status = 200
             /\ ret.answer.body = [champion |-> ret.champion, role |-> ret.role,
                                   stats |-> ret.data]

\* C15: POST /auth/register answers 400 when the riot_id is already
\* registered or contains no "#", and then USERS_FILE is as before (the
\* existing record keeps its password hash and puuid, no record is added);
\* otherwise it answers 200 and adds the record of that riot_id, every other
\* record staying as it was: a riot_id has one record, the one its first
\* successful registration created.
C15_RejectedRegistrationHasNoEffect ==
    ret.op = "register" =>
        IF ret.riot_id \in DOMAIN ret.users_before \/ ~HasHash(ret.riot_id)
        THEN ret.status = 400 /\ users_file = ret.users_before
        ELSE /\ ret.status = 200
             /\ DOMAIN users_file = DOMAIN ret.users_before \cup {ret.riot_id}
             /\ \A r \in DOMAIN ret.users_before :
                    users_file[r] = ret.users_before[r]
             /\ users_file[ret.riot_id].password_hash
                    = hash_password(ret.password)

\* a registered riot_id is registered again with another password: 400, and
\* the record still holds the hash of the first password
C15_Witness ==
    /\ ret.op = "register"
    /\ ret.riot_id \in DOMAIN ret.users_before
    /\ ret.users_before[ret.riot_id].password_hash # hash_password(ret.password)
    /\ ret.status = 400
    /\ users_file[ret.riot_id] = ret.users_before[ret.riot_id]

\* C16: POST /auth/login answers 200 if and only if the riot_id has a
\* record in USERS_FILE and the submitted password hashes to the stored
\* hash; it answers 401 otherwise (unknown riot_id, wrong password); it
\* leaves USERS_FILE as it was.
C16_LoginIffHashMatches ==
    ret.op = "login" =>
        /\ ret.status = 200 <=>
               /\ ret.riot_id \in DOMAIN ret.users_before
               /\ ret.users_before[ret.riot_id].password_hash
                      = hash_password(ret.password)
        /\ ret.status # 200 => ret.status = 401
        /\ users_file = ret.users_before

\* a registered riot_id logs in with a wrong password and is refused
C16_Witness ==
    /\ ret.op = "login"
    /\ ret.riot_id \in DOMAIN ret.users_before
    /\ ret.users_before[ret.riot_id].password_hash # hash_password(ret.password)
    /\ ret.status = 401
    /\ Cardinality(DOMAIN users_file) = 2

\* C18: after any sequence of POST /players/add calls on an empty store, the
\* riot_ids of MASTERIES_FILE are those added successfully and GET /players
\* reports their number as total; adding a riot_id already in the store
\* answers 200 and replaces its entry without adding one; adding a player
\* the Riot lookup does not find answers 404 and leaves the store as it was.
C18_TotalIsPlayersAdded ==
    /\ DOMAIN masteries_file = players_added
    /\ ret.op = "list_players" => ret.total = Cardinality(players_added)
    /\ ret.op = "add_player" =>
           /\ ret.riot_id \in DOMAIN ret.before =>
                  /\ ret.status = 200
                  /\ DOMAIN masteries_file = DOMAIN ret.before
                  /\ masteries_file[ret.riot_id].updated_at = now
                  /\ \A r \in DOMAIN ret.before \ {ret.riot_id} :
                         masteries_file[r] = ret.before[r]
           /\ ret.riot_id \notin DOMAIN ret.before /\ ~ret.found =>
                  /\ ret.status = 404
                  /\ masteries_file = ret.before

\* two players are tracked, one is added again later and its entry is
\* refreshed, the store still holding two
C18_Witness ==
    /\ ret.op = "add_player"
    /\ ret.riot_id \in DOMAIN ret.before
    /\ ret.status = 200
    /\ masteries_file[ret.riot_id].updated_at > ret.before[ret.riot_id].updated_at
    /\ Cardinality(players_added) = 2
    /\ Cardinality(DOMAIN masteries_file) = 2

\* the sum and the number of the per-enemy winrates the scorer averaged;
\* matched is 0 when it answered without averaging
CounterMean ==
    IF ret.op = "lola_get_counter_score"
    THEN IF ret.enemy_champions # <<>> /\ ret.data.games > 0
         THEN [total |-> LolaTotalScore(ret.data, ret.enemy_champions, 1),
               matched |-> Len(ret.enemy_champions)]
         ELSE [total |-> 0, matched |-> 0]
    ELSE IF ret.op = "ds_get_counter_score" /\ ret.enemy_champions # <<>>
    THEN DsAccumulate(DsChampMatchups(ret.table, ret.champion, ret.role).vs,
                      ret.enemy_champions, 1)
    ELSE [total |-> 0, matched |-> 0]

C20_MonotoneInRecordedWinrate ==
    ret.op \in {"ds_raised_winrate", "lola_raised_winrate"} =>
        ret.score_after >= ret.score_before

\* the subject has a record against each of two enemies; raising one of
\* them raises the score strictly
C20_Witness ==
    /\ ret.op = "ds_raised_winrate"
    /\ Len(ret.enemy_champions) = 2
    /\ ret.enemy_champions[1] # ret.enemy_champions[2]
    /\ DsAccumulate(DsChampMatchups(ret.table, ret.champion, ret.role).vs,
                    ret.enemy_champions, 1).matched = 2
    /\ ret.score_after > ret.score_before

\* C21: for a champion with at least one recorded matchup the dataset-backed
\* get_blindpick_score returns clip(70 - 10 h - 3 s + 2 f, 0, 100), h
\* counting the recorded winrates below 45, s those in [45, 48) and f those
\* above 52; whatever the number of matchups (none, one, fifty and more) the
\* result lies in [0, 100].
C21_BlindpickFormula ==
    ret.op = "ds_blindpick_of_vs" =>
        /\ 0 <= ret.score /\ ret.score <= 100000
        /\ ret.h + ret.s + ret.f + ret.n >= 1 =>
               ret.score = Clip(70000 - 10000 * ret.h - 3000 * ret.s
                                + 2000 * ret.f, 0, 100000)

\* more than fifty matchups of the three kinds and of none
C21_Witness ==
    /\ ret.op = "ds_blindpick_of_vs"
    /\ ret.h = 2 /\ ret.s = 1 /\ ret.f = MaxFavorable /\ ret.n = 1
    /\ Len(ret.table[1][2]) > 50
    /\ ret.score = 100000

\* the matchups fetched for the champion: those it loses and those it wins
FetchedMatchups(data) == data.counters \o data.weak_against

\* C22 as stated: for a champion with games > 0 the provider-backed
\* get_blindpick_score returns
\* clip(70 - 12 h - 4 s + max(0, (globalWinrate - 50) * 2), 0, 100), h being
\* the number of its fetched matchups with a winrate below 45 and s the
\* number of those in [45, 48): its losing matchups are penalised.  (Stated
\* for a champion with at least one fetched matchup.)
C22_LosingMatchupsPenalised ==
    ret.op = "lola_get_blindpick_score" /\ ret.data.games > 0
      /\ FetchedMatchups(ret.data) # <<>> =>
        LET h == CountWhere(FetchedMatchups(ret.data),
                            LAMBDA m : m.winrate < 45000)
            s == CountWhere(FetchedMatchups(ret.data),
                            LAMBDA m : 45000 <= m.winrate /\ m.winrate < 48000)
        IN  ret.score = Clip(70000 - 12000 * h - 4000 * s
                             + Max(0, (ret.data.winrate - 50000) * 2),
                             0, 100000)

\* what the code does instead: the penalties are counted in weak_against,
\* which holds winrates of 52 and more only, so that a parsed payload is
\* never penalised
C22_PenaltiesNeverApply ==
    ret.op = "lola_get_blindpick_score" /\ ret.data.games > 0
      /\ ret.data.weak_against # <<>>
      /\ (\A i \in 1..Len(ret.data.weak_against) :
             ret.data.weak_against[i].winrate >= 52000)
        => ret.score = Clip(70000 + Max(0, (ret.data.winrate - 50000) * 2),
                            0, 100000)

\* the conditions of the two bonuses for a scored candidate r
MasteryBonusDue(r) == r.mastery_level >= 5 /\ r.stats_winrate >= 51000
CounterBonusDue(r) ==
    /\ r.counter_value >= 7 * (SCORE_ONE \div 10)
    /\ ret.args.enemy_champions \notin {NoneList, <<>>}

\* C23: in get_recommendations the weighted score is multiplied by 1.10
\* exactly when mastery level >= 5 and winrate >= 51, and by 1.15 exactly
\* when the counter/blind component is >= 0.7 and enemies were supplied; with
\* both the factors are multiplied (1.265, more than the 1.25 of an added
\* bonus), with neither the score is the weighted score.
C23_BonusesMultiply ==
    ret.op = "get_recommendations" =>
        \A i \in 1..Len(ret.survivors) :
            LET r == ret.survivors[i]
                once == (r.weighted * 110) \div 100
            IN  /\ MasteryBonusDue(r) /\ CounterBonusDue(r) =>
                       /\ r.final_score = (once * 115) \div 100
                       /\ r.weighted >= 1000 =>
                              r.final_score > (r.weighted * 125) \div 100
                /\ MasteryBonusDue(r) /\ ~CounterBonusDue(r) =>
                       r.final_score = once
                /\ ~MasteryBonusDue(r) /\ CounterBonusDue(r) =>
                       r.final_score = (r.weighted * 115) \div 100
                /\ ~MasteryBonusDue(r) /\ ~CounterBonusDue(r) =>
                       r.final_score = r.weighted

\* a candidate that earns both bonuses
C23_Witness ==
    /\ ret.op = "get_recommendations"
    /\ \E i \in 1..Len(ret.survivors) :
           LET r == ret.survivors[i] IN
           /\ MasteryBonusDue(r) /\ CounterBonusDue(r)
           /\ r.weighted > 0
           /\ r.final_score > r.weighted

\* C24: get_recommendations considers the first 30 mastery records, in the
\* order given, and cuts the list before it excludes and scores: no stats
\* are looked up for a record at position 31 or later and no such record is
\* returned, even when records among the first 30 are skipped, excluded,
\* filtered out or score lower.  (max_points alone is taken over the whole
\* list.)
C24_OnlyFirstThirty ==
    Recommended =>
        /\ \A i \in 1..Len(ret.survivors) : ret.survivors[i].pos <= 30
        /\ \A i \in 1..Len(ret.result) :
               /\ ret.result[i].pos <= 30
               /\ ret.result[i].champion
                      = ret.args.masteries[ret.result[i].pos].champion_name
        /\ \A k \in 1..Len(ret.lookups) :
               \E j \in 1..Min(Len(ret.args.masteries), 30) :
                   LET name == ret.args.masteries[j].champion_name IN
                   /\ name # <<>>
                   /\ Lower(name) \notin Unavailable(ret.args)
                   /\ ret.lookups[k] = CacheKey(name, ret.args.role)

\* the first 30 records are all excluded, the 31st is Ashe, whose stats
\* the provider would serve: nothing is looked up, nothing is returned
C24_Witness ==
    /\ Recommended
    /\ Len(ret.args.masteries) > 30
    /\ \A j \in 1..30 :
           Lower(ret.args.masteries[j].champion_name) \in Unavailable(ret.args)
    /\ ret.args.masteries[31].champion_name = S_Ashe
    /\ Request(S_Ashe, ret.args.role) \in DOMAIN ret.prov
    /\ ret.prov[Request(S_Ashe, ret.args.role)] = Json(P_matchups)
    /\ ret.lookups = <<>>
    /\ ret.result = <<>>

\* the counters load_matchup_data holds after its loop over the games,
\* before the floor of DS_MIN_GAMES games is applied
Counted(rows) ==
    CountGames(<<>>, RowsOfSeason(rows),
               UniqueGameIds(RowsOfSeason(rows), Len(RowsOfSeason(rows))), 1)
CounterOf(matchups, key, vs_key) ==
    IF DictHas(matchups, key) /\ DictHas(DictGet(matchups, key, <<>>), vs_key)
    THEN DictGet(DictGet(matchups, key, <<>>), vs_key, [wins |-> 0, games |-> 0])
    ELSE [wins |-> 0, games |-> 0]
AllKeys(rows) == UNION {KeysOfRow(rows[i]) : i \in 1..Len(rows)}

\* the (game, team) pairs in which key was picked by the team and vs_key by
\* the other team, and those of them in which the team's result is 1
SidesFacing(rows, key, vs_key) ==
    {gs \in GamesOf(rows) \X {1, 2} :
        /\ key \in KeysOfRow(gs[1][gs[2]])
        /\ vs_key \in KeysOfRow(gs[1][3 - gs[2]])}
SidesWinning(rows, key, vs_key) ==
    {gs \in SidesFacing(rows, key, vs_key) : gs[1][gs[2]].result = 1}

KeysWithData(table, champion) ==
    {i \in 1..Len(table) :
        StartsWith(table[i][1], champion \o S_us) /\ table[i][2] # <<>>}

\* the answer of the scorer in ret, had the table held the records vs alone
\* under the champion's exact key
ScoreOnRecords(vs) ==
    LET exact == ret.champion \o S_us \o DsNormalizedRole(ret.role)
        only == << <<exact, vs>> >>
    IN  IF ret.op = "ds_get_counter_score"
        THEN DsGetCounterScore(only, ret.champion, ret.role, ret.enemy_champions)
        ELSE DsGetBlindpickScore(only, ret.champion, ret.role)

\* C26 as stated: a dataset-backed scorer asked about (champion, role) uses
\* the records of the exact role when it has some; when the exact role has
\* none (no key, or a key without surviving records) it uses the records of
\* another role of that champion; the counter scorer answers the neutral
\* 50.0 when no role of the champion has records.
C26_FallsBackToRoleWithData ==
    DatasetScored /\ (ret.op = "ds_get_counter_score" => ret.enemy_champions # <<>>) =>
        LET exact == ret.champion \o S_us \o DsNormalizedRole(ret.role)
            records == DictGet(ret.table, exact, <<>>)
        IN  /\ records # <<>> => ret.score = ScoreOnRecords(records)
            /\ records = <<>> /\ KeysWithData(ret.table, ret.champion) # {} =>
                   \E i \in KeysWithData(ret.table, ret.champion) :
                       ret.score = ScoreOnRecords(ret.table[i][2])
            /\ KeysWithData(ret.table, ret.champion) = {}
                 /\ ret.op = "ds_get_counter_score"
                   => ret.score = 50000

\* what the code does: the exact key is used whenever the table has it,
\* with or without records; without it, the first key of the table that
\* starts with "<champion>_", with or without records
C26_FirstKeyOfChampion ==
    DatasetScored /\ (ret.op = "ds_get_counter_score" => ret.enemy_champions # <<>>) =>
        LET exact == ret.champion \o S_us \o DsNormalizedRole(ret.role)
            prefix == ret.champion \o S_us
        IN  /\ DictHas(ret.table, exact) =>
                   ret.score = ScoreOnRecords(DictGet(ret.table, exact, <<>>))
            /\ ~DictHas(ret.table, exact) /\ HasPrefixKey(ret.table, prefix) =>
                   ret.score = ScoreOnRecords(
                       ret.table[FirstPrefixIndex(ret.table, prefix)][2])

\* ---------------------------------------------------------------------
\* C29  Only successful provider lookups are cached: a lookup that failed
\* (timeout or exception, non-200 answer, undecodable body, or a payload
\* that could not be parsed) leaves the in-memory cache, its timestamp and
\* the cache file as they were, so that the next lookup for the same key
\* contacts the provider again.
C29_FailedLookupNotCached ==
    [][Idle /\ Fetched' /\ ret'.resp \in Failures \cup Malformed =>
           UNCHANGED <<cache, cache_time, cache_file>>]_vars

\* what the code does: the lookups that end before the parse (timeout,
\* non-200 answer, undecodable body) store nothing
C29_TransportFailureNotCached ==
    [][Idle /\ Fetched' /\ ret'.resp \in Failures =>
           UNCHANGED <<cache, cache_time, cache_file>>]_vars

\* what the code does: a payload that could not be parsed is stored like a
\* successful one, with a fresh timestamp
C29_UnparsedPayloadCached ==
    [][Idle /\ Fetched' /\ ret'.resp \in Malformed =>
           /\ cache'[CacheKey(ret'.champion, ret'.role)] = ret'.data
           /\ cache_time' = now
           /\ cache_file' = [timestamp |-> now, matchups |-> cache']]_vars

\* ---------------------------------------------------------------------
\* a call that went through a mastery refresh of a player whose stored
\* mastery list was not empty, the Riot fetch having failed
FailedRefreshOfStored ==
    /\ ret.status = 200
    /\ ~ret.fetch_ok
    /\ ret.riot_id \in DOMAIN ret.before
    /\ ret.before[ret.riot_id].puuid # NoPuuid
    /\ ret.before[ret.riot_id].masteries # <<>>

\* C30  A mastery refresh whose Riot fetch fails does not destroy stored
\* data: a login or a POST /masteries/{riot_id}/refresh of a player with a
\* non-empty stored mastery list, during which fetch_masteries_from_riot
\* fails, leaves the stored list unchanged.
C30_FailedFetchKeepsStoredList ==
    ret.op \in {"login", "refresh_masteries"} /\ FailedRefreshOfStored =>
        masteries_file[ret.riot_id].masteries
            = ret.before[ret.riot_id].masteries

\* the same for a repeated POST /players/add
C30_FailedFetchKeepsAddedPlayer ==
    ret.op = "add_player" /\ FailedRefreshOfStored =>
        masteries_file[ret.riot_id].masteries
            = ret.before[ret.riot_id].masteries

\* what the code does: whenever the refresh runs, the stored list becomes
\* the transformed answer of the fetch, the empty list when it failed
C30_StoredListIsLastFetch ==
    /\ ret.op \in {"login", "refresh_masteries"} /\ FailedRefreshOfStored =>
           masteries_file[ret.riot_id].masteries = <<>>
    /\ ret.op = "add_player" /\ FailedRefreshOfStored =>
           masteries_file[ret.riot_id].masteries = <<>>

C27_LoadedTableIsComplete ==
    \A t \in Threads :
        threads[t].pc = "loaded" =>
            threads[t].table = BuildMatchups(dataset.rows)

\* what the code does for the provider cache: between the statements that
\* store the entry and the timestamp, the entry is in the cache with the
\* timestamp of before
C27_EntryBeforeTimestamp ==
    \A t \in Threads :
        threads[t].pc = "store_time" =>
            /\ threads[t].cache_key \in DOMAIN cache
            /\ stored_at[threads[t].cache_key] = now

====
